---- MODULE Spec2Model ----
(***************************************************************************)
(* Address-to-identity resolution core of Parser/robot.py: text            *)
(* normalisation, component extraction, street keys, house/part            *)
(* comparison, the candidate index and compare_one.                        *)
(*                                                                         *)
(* Text is modelled character by character.  A string is a sequence of     *)
(* characters and a character is a TLA+ string naming it.  Cyrillic        *)
(* letters are written with one Latin stand-in each:                       *)
(*   a=а b=б v=в g=г d=д e=е j=ж z=з i=и k=к l=л m=м n=н o=о p=п r=р s=с   *)
(*   t=т u=у f=ф c=ц w=ш x=щ q=я,  upper case likewise (K=К ...),          *)
(*   "yo"=ё  "YO"=Ё  "No"=№ (U+2116)  "bs"=backslash  "ndash"=U+2013       *)
(*   "Ln" "Lo" = Latin n, o   "LN" = Latin N   (what NFKC makes of №).     *)
(* Python's None is Nil, an optional value x is Some(x).                   *)
(***************************************************************************)
EXTENDS Integers, Sequences, FiniteSets, TLC

VARIABLES
    pc,        \* position of the run: which step comes next
    raw,       \* normaliser run: the raw input string
    norm1,     \* normaliser run: normalize(raw)
    norm2,     \* normaliser run: normalize(normalize(raw))
    addr_a,    \* comparator run: the two addresses
    addr_b,
    parsed_a,    \* comparator run: their components
    parsed_b,
    ovl,       \* comparator run: houses_overlap both ways
    rel,       \* comparator run: part_relation both ways
    my_items,  \* matcher run: the internal catalog
    my_index,  \* matcher run: the index build_my_index returned
    comp_row,  \* matcher run: the competitor listing compared last
    comp_comp, \* matcher run: its components, as compare_one extracted them
    out,       \* matcher run: what compare_one returned for it
    groups,    \* union run: the pools of build_union_objects, by address key
    u_trace,   \* union run: per listing processed, the pool it met and the object it got
    s_obj,     \* swipe run: one UnifiedObject
    final_result, \* report run: what build_final_result made of the row compared
    respondent_vote, \* poll run: the rows of table respondent_vote, by id
    last_id,   \* poll run: the last id AUTOINCREMENT gave out
    handlers,  \* poll run: the handler threads of the server, one per request
    votes_file, \* poll run: the number of rows of the votes file
    card       \* poll run: the card get_card returned last, Nil before the first

normVars == <<raw, norm1, norm2>>
pairVars == <<addr_a, addr_b, parsed_a, parsed_b, ovl, rel>>
matchVars == <<my_items, my_index, comp_row, comp_comp, out>>
boardVars == <<groups, u_trace, s_obj, final_result>>
voteVars == <<respondent_vote, last_id, handlers, votes_file, card>>
vars == <<pc, normVars, pairVars, matchVars, boardVars, voteVars>>

Nil == <<>>
Some(x) == <<x>>
IsNil(o) == o = <<>>
Val(o) == o[1]

---------------------------------------------------------------------------
(* Characters *)

DigitChars == <<"0", "1", "2", "3", "4", "5", "6", "7", "8", "9">>
LowerLetters ==
    <<"a", "b", "v", "g", "d", "e", "j", "z", "i", "k", "l", "m",
      "n", "o", "p", "r", "s", "t", "u", "f", "c", "w", "x", "q">>
UpperLetters ==
    <<"A", "B", "V", "G", "D", "E", "J", "Z", "I", "K", "L", "M",
      "N", "O", "P", "R", "S", "T", "U", "F", "C", "W", "X", "Q">>

Range(f) == {f[i] : i \in DOMAIN f}
IndexOf(seq, c) == CHOOSE i \in DOMAIN seq : seq[i] = c

IsDigit(c) == c \in Range(DigitChars)
\* [a-zа-я] on lower-cased text (ё, U+0451, lies outside а-я)
IsLetter(c) == c \in Range(LowerLetters) \cup {"Ln", "Lo"}
\* [a-zа-я] under re.I
IsLetterI(c) == IsLetter(c) \/ c \in Range(UpperLetters) \cup {"LN"}
\* \w
IsWordChar(c) == IsLetterI(c) \/ IsDigit(c) \/ c \in {"yo", "YO", "_"}
\* \s
IsSpace(c) == c = " "
\* int() of one digit
DigitVal(c) == IndexOf(DigitChars, c) - 1

\* code point order of the characters, for sorted()
CharOrder ==
    <<" ", ",", "-", ".", "/">> \o DigitChars \o <<"LN", "_", "Ln", "Lo", "YO">>
    \o UpperLetters \o LowerLetters \o <<"yo", "ndash", "No">>
Ord(c) == IndexOf(CharOrder, c)

---------------------------------------------------------------------------
(* Generic text helpers: what the re / str calls of the source do *)

\* re.sub(pattern, rep, s) for a pattern that never matches the empty string:
\* MatchEnd(s, i) is the index after the match starting at i, or 0.
SubAll(s, MatchEnd(_, _), rep) ==
    LET RECURSIVE go(_)
        go(i) ==
            IF i > Len(s) THEN <<>>
            ELSE LET e == MatchEnd(s, i)
                 IN  IF e > 0 THEN rep \o go(e) ELSE <<s[i]>> \o go(i + 1)
    IN  go(1)

\* index after the run of whitespace starting at i
RECURSIVE SkipSpace(_, _)
SkipSpace(s, i) ==
    IF i <= Len(s) /\ IsSpace(s[i]) THEN SkipSpace(s, i + 1) ELSE i

\* str.strip()
RECURSIVE LStrip(_)
LStrip(s) == IF s # <<>> /\ IsSpace(s[1]) THEN LStrip(Tail(s)) ELSE s
RECURSIVE RStrip(_)
RStrip(s) ==
    IF s # <<>> /\ IsSpace(s[Len(s)]) THEN RStrip(SubSeq(s, 1, Len(s) - 1)) ELSE s
Strip(s) == LStrip(RStrip(s))

\* re.sub(r"\s+", " ", s)
SpaceRunEnd(s, i) == IF IsSpace(s[i]) THEN SkipSpace(s, i) ELSE 0
CollapseSpaces(s) == SubAll(s, SpaceRunEnd, <<" ">>)

\* \b at the gap before s[i]
IsWordAt(s, i) == i >= 1 /\ i <= Len(s) /\ IsWordChar(s[i])
Boundary(s, i) == IsWordAt(s, i - 1) # IsWordAt(s, i)

\* the literal lit occurs in s at i
LitAt(s, i, lit) ==
    /\ i + Len(lit) - 1 <= Len(s)
    /\ \A j \in 1..Len(lit) : s[i + j - 1] = lit[j]

---------------------------------------------------------------------------
(* norm_text *)

\* unicodedata.normalize("NFKC", s): № decomposes to "No", ё is composed
Nfkc(c) == IF c = "No" THEN <<"LN", "Lo">> ELSE <<c>>

\* str.lower()
LowerChar(c) ==
    IF c \in Range(UpperLetters) THEN LowerLetters[IndexOf(UpperLetters, c)]
    ELSE IF c = "LN" THEN "Ln"
    ELSE IF c = "YO" THEN "yo"
    ELSE c

MapFlat(s, F(_)) ==
    LET RECURSIVE go(_)
        go(i) == IF i > Len(s) THEN <<>> ELSE F(s[i]) \o go(i + 1)
    IN  go(1)

\* [\.;:\(\)\[\]\{\}]
IsPunct(c) == c \in {".", ";", ":", "(", ")", "[", "]", "{", "}"}

\* lines 164-169 on one character of the NFKC form
NormChar(c) ==
    LET l == LowerChar(c)
        y == IF l = "yo" THEN "e" ELSE l
    IN  IF y = "No" THEN <<>>
        ELSE IF y = "bs" THEN <<" ">>
        ELSE IF IsPunct(y) THEN <<" ">>
        ELSE <<y>>

\* \s*,\s*
CommaEnd(s, i) ==
    LET c == SkipSpace(s, i)
    IN  IF c <= Len(s) /\ s[c] = "," THEN SkipSpace(s, c + 1) ELSE 0

norm_text(s) ==
    LET s1 == MapFlat(s, Nfkc)
        s2 == MapFlat(s1, NormChar)
        s3 == SubAll(s2, CommaEnd, <<",", " ">>)
    IN  Strip(CollapseSpaces(s3))

---------------------------------------------------------------------------
(* normalize_street_part *)

\* _STREET_EQUIV: <<literal between the two \b, replacement>>, in order
STREET_EQUIV ==
    << << <<"p","r","o","s","p","e","k","t">>, <<"p","r">> >>,
       << <<"p","r","o","s","p">>, <<"p","r">> >>,
       << <<"p","r","-","k","t">>, <<"p","r">> >>,
       << <<"p","r","-","t">>, <<"p","r">> >>,
       << <<"p","r",".">>, <<"p","r">> >>,
       << <<"p","r">>, <<"p","r">> >>,
       << <<"u","l","i","c","a">>, <<"u","l">> >>,
       << <<"u","l",".">>, <<"u","l">> >>,
       << <<"u","l">>, <<"u","l">> >>,
       << <<"n","a","b","e","r","e","j","n","a","q">>, <<"n","a","b">> >>,
       << <<"n","a","b",".">>, <<"n","a","b">> >>,
       << <<"n","a","b">>, <<"n","a","b">> >>,
       << <<"p","e","r","e","u","l","o","k">>, <<"p","e","r">> >>,
       << <<"p","e","r",".">>, <<"p","e","r">> >>,
       << <<"p","e","r">>, <<"p","e","r">> >>,
       << <<"w","o","s","s","e">>, <<"w">> >>,
       << <<"w",".">>, <<"w">> >>,
       << <<"w">>, <<"w">> >>,
       << <<"k","o","r","p","u","s">>, <<"k">> >>,
       << <<"k","o","r","p",".">>, <<"k">> >>,
       << <<"s","t","r","o","e","n","i","e">>, <<"s","t","r">> >>,
       << <<"s","t","r",".">>, <<"s","t","r">> >>
    >>

\* re.sub(r"\b<lit>\b", rep, s)
SubWord(s, lit, rep) ==
    LET RECURSIVE go(_)
        go(i) ==
            IF i > Len(s) THEN <<>>
            ELSE IF s[i] = lit[1] /\ LitAt(s, i, lit)
                    /\ Boundary(s, i) /\ Boundary(s, i + Len(lit))
                 THEN rep \o go(i + Len(lit))
                 ELSE <<s[i]>> \o go(i + 1)
    IN  go(1)

RECURSIVE ApplyEquiv(_, _)
ApplyEquiv(s, k) ==
    IF k > Len(STREET_EQUIV) THEN s
    ELSE LET t == SubWord(s, STREET_EQUIV[k][1], STREET_EQUIV[k][2])
         IN  IF Len(t) >= 0 THEN ApplyEquiv(t, k + 1) ELSE t

normalize_street_part(addr_norm) ==
    Strip(CollapseSpaces(ApplyEquiv(addr_norm, 1)))

\* the value extract_components works on (line 332)
normalize(x) == normalize_street_part(norm_text(x))

---------------------------------------------------------------------------
(* House block: _HOUSE_BLOCK_PAT and _parse_house_from_segment *)

\* index after the run of at most max digits starting at i
RECURSIVE DigitsEnd(_, _, _)
DigitsEnd(s, i, max) ==
    IF max > 0 /\ i <= Len(s) /\ IsDigit(s[i]) THEN DigitsEnd(s, i + 1, max - 1) ELSE i

\* int() of a digit string
RECURSIVE ToInt(_)
ToInt(ds) ==
    IF ds = <<>> THEN 0
    ELSE 10 * ToInt(SubSeq(ds, 1, Len(ds) - 1)) + DigitVal(ds[Len(ds)])

\* \d{1,4}
HouseDigits == 4

\* (?:\s*[-–]\s*(\d{1,4}))? tried at p: <<index after, group 2>>
RangeGroup(s, p) ==
    LET j  == SkipSpace(s, p)
        j2 == SkipSpace(s, j + 1)
        e  == DigitsEnd(s, j2, HouseDigits)
    IN  IF j <= Len(s) /\ s[j] \in {"-", "ndash"} /\ e > j2
        THEN <<e, SubSeq(s, j2, e - 1)>>
        ELSE <<p, <<>> >>

\* ([a-zа-я](?!\d))? tried at p: <<index after, group 3>>
LetterGroup(s, p) ==
    IF p <= Len(s) /\ IsLetterI(s[p]) /\ ~(p + 1 <= Len(s) /\ IsDigit(s[p + 1]))
    THEN <<p + 1, <<s[p]>> >>
    ELSE <<p, <<>> >>

\* the marker alternatives, in the order the pattern tries them
CORP_MARKERS == << <<"k">>, <<"k","o","r","p","u","s">>, <<"k","o","r","p">> >>
STR_MARKERS  == << <<"s">>, <<"s","t","r">>, <<"s","t","r","o","e","n","i","e">> >>

\* \s*\.?\s*(\d+[a-zа-я]?) after a marker ending before p: <<index after, group>> or <<0, "">>
PartNumber(s, p) ==
    LET a  == SkipSpace(s, p)
        b  == IF a <= Len(s) /\ s[a] = "." THEN a + 1 ELSE a
        c  == SkipSpace(s, b)
        e  == DigitsEnd(s, c, Len(s))
        e2 == IF e <= Len(s) /\ IsLetterI(s[e]) THEN e + 1 ELSE e
    IN  IF e > c THEN <<e2, SubSeq(s, c, e2 - 1)>> ELSE <<0, <<>> >>

\* (?:\s*(?:m1|m2|m3)\s*\.?\s*(\d+[a-zа-я]?))? tried at p: <<index after, group>>
RECURSIVE PartGroupFrom(_, _, _, _)
PartGroupFrom(s, p, markers, k) ==
    IF k > Len(markers) THEN <<p, <<>> >>
    ELSE LET j == SkipSpace(s, p)
             r == PartNumber(s, j + Len(markers[k]))
         IN  IF LitAt(s, j, markers[k]) /\ r[1] > 0 THEN r
             ELSE PartGroupFrom(s, p, markers, k + 1)
PartGroup(s, p, markers) == PartGroupFrom(s, p, markers, 1)

\* the groups of a match that starts at i, once its optional parts are tried
\* in order: range rg, letter lg, corpus cg, building sg
HouseMatchOf(s, i, e1, rg, lg, cg, sg) ==
    [start |-> i, end |-> sg[1],
     g1 |-> SubSeq(s, i, e1 - 1), g2 |-> rg[2], g3 |-> lg[2],
     g4 |-> cg[2], g5 |-> sg[2]]
HouseMatchParts(s, i, e1, rg, lg, cg) ==
    HouseMatchOf(s, i, e1, rg, lg, cg, PartGroup(s, cg[1], STR_MARKERS))
HouseMatchLetter(s, i, e1, rg, lg) ==
    HouseMatchParts(s, i, e1, rg, lg, PartGroup(s, lg[1], CORP_MARKERS))
HouseMatchRange(s, i, e1, rg) == HouseMatchLetter(s, i, e1, rg, LetterGroup(s, rg[1]))
HouseMatchDigits(s, i, e1) == HouseMatchRange(s, i, e1, RangeGroup(s, e1))

\* the match of _HOUSE_BLOCK_PAT that starts at i (s[i] a digit with no digit before it)
HouseMatchAt(s, i) == HouseMatchDigits(s, i, DigitsEnd(s, i, HouseDigits))

\* (?<!\d)(\d...
HouseStartAt(s, i) == IsDigit(s[i]) /\ ~(i > 1 /\ IsDigit(s[i - 1]))

\* list(_HOUSE_BLOCK_PAT.finditer(segment))
RECURSIVE HouseMatchesFrom(_, _)
HouseMatchesAfter(s, m) == <<m>> \o HouseMatchesFrom(s, m.end)
HouseMatchesFrom(s, i) ==
    IF i > Len(s) THEN <<>>
    ELSE IF HouseStartAt(s, i) THEN HouseMatchesAfter(s, HouseMatchAt(s, i))
    ELSE HouseMatchesFrom(s, i + 1)
HouseMatches(s) == HouseMatchesFrom(s, 1)

\* (x or "").strip() or None
StripOrNone(g) == IF Strip(g) = <<>> THEN Nil ELSE Some(Strip(g))

\* lines 247-260; span is [start, end) as the indexes start..end-1
HouseData(hm) ==
    [house_from |-> ToInt(hm.g1),
     house_to |-> IF hm.g2 # <<>> THEN ToInt(hm.g2) ELSE ToInt(hm.g1),
     house_letter |-> Strip(hm.g3),
     corp |-> StripOrNone(hm.g4),
     str |-> StripOrNone(hm.g5),
     span |-> <<hm.start, hm.end>>]

\* lines 243-245 with prefer_first ignored: always matches[0]
PickMatchFirst(matches, prefer_first) ==
    IF matches = <<>> THEN Nil ELSE Some(HouseData(matches[1]))

\* lines 243-245
PickMatch(matches, prefer_first) ==
    IF matches = <<>> THEN Nil
    ELSE Some(HouseData(IF prefer_first THEN matches[1] ELSE matches[Len(matches)]))

\* Nil, or Some of the house data
_parse_house_from_segment(segment, prefer_first) ==
    PickMatch(HouseMatches(segment), prefer_first)

_remove_house_from_segment(segment, span) ==
    LET left  == Strip(SubSeq(segment, 1, span[1] - 1))
        right == Strip(SubSeq(segment, span[2], Len(segment)))
    IN  IF left # <<>> /\ right # <<>> THEN Strip(left \o <<" ">> \o right)
        ELSE IF left # <<>> THEN left ELSE right

---------------------------------------------------------------------------
(* _has_real_street_words *)

\* the alternatives of the pattern of line 277
DESCRIPTOR_WORDS ==
    { <<"d">>, <<"d","o","m">>, <<"k">>, <<"k","o","r","p">>, <<"k","o","r","p","u","s">>,
      <<"s">>, <<"s","t","r">>, <<"s","t","r","o","e","n","i","e">>,
      <<"p","o","m">>, <<"p","o","m","e","x","e","n","i","e">>,
      <<"o","f">>, <<"o","f","i","s">>, <<"l","i","t">>, <<"l","i","t","e","r","a">> }

\* index after the run of word characters starting at i
RECURSIVE WordEnd(_, _)
WordEnd(s, i) == IF IsWordAt(s, i) THEN WordEnd(s, i + 1) ELSE i

\* \b(d|dom|...)\b at i: a whole word that is one of the alternatives
DescriptorEnd(s, i) ==
    LET e == WordEnd(s, i)
    IN  IF Boundary(s, i) /\ e > i /\ SubSeq(s, i, e - 1) \in DESCRIPTOR_WORDS
        THEN e ELSE 0

\* \d+[a-zа-я]? at i
NumberEnd(s, i) ==
    LET e == DigitsEnd(s, i, Len(s))
    IN  IF e = i THEN 0
        ELSE IF e <= Len(s) /\ IsLetter(s[e]) THEN e + 1 ELSE e

\* [^a-zа-я0-9]+ under re.I at i
RECURSIVE NonAlnumRun(_, _)
NonAlnumRun(s, i) ==
    IF i <= Len(s) /\ ~(IsLetterI(s[i]) \/ IsDigit(s[i])) THEN NonAlnumRun(s, i + 1) ELSE i
NonAlnumEnd(s, i) == LET e == NonAlnumRun(s, i) IN IF e > i THEN e ELSE 0

\* str.split()
RECURSIVE NonSpaceEnd(_, _)
NonSpaceEnd(s, i) ==
    IF i <= Len(s) /\ ~IsSpace(s[i]) THEN NonSpaceEnd(s, i + 1) ELSE i
RECURSIVE SplitFrom(_, _)
SplitFrom(s, i) ==
    IF i > Len(s) THEN <<>>
    ELSE IF IsSpace(s[i]) THEN SplitFrom(s, i + 1)
    ELSE LET e == NonSpaceEnd(s, i) IN <<SubSeq(s, i, e - 1)>> \o SplitFrom(s, e)
Split(s) == SplitFrom(s, 1)

\* " ".join(tokens)
RECURSIVE Join(_)
Join(tokens) ==
    IF tokens = <<>> THEN <<>>
    ELSE IF Len(tokens) = 1 THEN tokens[1]
    ELSE tokens[1] \o <<" ">> \o Join(Tail(tokens))

\* [t for t in tokens if keep(t)]
Filter(tokens, Keep(_)) == SelectSeq(tokens, Keep)

NotOneLetter(t) == ~(Len(t) = 1 /\ IsLetter(t[1]))

\* lines 288-290
HasLetter(tmp2) == tmp2 # <<>> /\ \E i \in 1..Len(tmp2) : IsLetter(tmp2[i])

\* lines 282-287
RealWordsIn(tmp) ==
    IF tmp = <<>> THEN FALSE
    ELSE HasLetter(Strip(Join(Filter(Split(tmp), NotOneLetter))))

_has_real_street_words(text) ==
    IF text = <<>> THEN FALSE
    ELSE RealWordsIn(Strip(CollapseSpaces(
            SubAll(SubAll(SubAll(text, DescriptorEnd, <<" ">>), NumberEnd, <<" ">>),
                   NonAlnumEnd, <<" ">>))))

---------------------------------------------------------------------------
(* _make_street_keys *)

STREET_DROP_TOKENS ==
    { <<"d">>, <<"d","o","m">>, <<"p","o","m">>, <<"p","o","m","e","x","e","n","i","e">>,
      <<"o","f">>, <<"o","f","i","s">>, <<"l","i","t">>, <<"l","i","t","e","r","a">>,
      <<"k">>, <<"k","o","r","p","u","s">>, <<"k","o","r","p">>,
      <<"s","t","r">>, <<"s","t","r","o","e","n","i","e">> }

STREET_TYPE_TOKENS == { <<"u","l">>, <<"p","r">>, <<"n","a","b">>, <<"p","e","r">>, <<"w">> }

\* re.fullmatch(r"(?:к|стр)\d+[a-zа-я]?", t)
IsTechToken(t) ==
    LET p == IF LitAt(t, 1, <<"s","t","r">>) THEN 4
             ELSE IF LitAt(t, 1, <<"k">>) THEN 2 ELSE 0
        e == NumberEnd(t, p)
    IN  p > 0 /\ p <= Len(t) /\ e = Len(t) + 1

\* a < b as Python compares strings
RECURSIVE StrLess(_, _)
StrLess(a, b) ==
    IF b = <<>> THEN FALSE
    ELSE IF a = <<>> THEN TRUE
    ELSE IF a[1] = b[1] THEN StrLess(Tail(a), Tail(b))
    ELSE Ord(a[1]) < Ord(b[1])

\* sorted(tokens)
RECURSIVE Insert(_, _)
Insert(t, sortedTokens) ==
    IF sortedTokens = <<>> THEN <<t>>
    ELSE IF StrLess(t, sortedTokens[1]) THEN <<t>> \o sortedTokens
    ELSE <<sortedTokens[1]>> \o Insert(t, Tail(sortedTokens))
RECURSIVE Sorted(_)
Sorted(tokens) ==
    IF tokens = <<>> THEN <<>>
    ELSE Insert(tokens[Len(tokens)], Sorted(SubSeq(tokens, 1, Len(tokens) - 1)))

\* lines 308-311 without sorted(): both keys in the order of the segment
KeysInOrder(tokens) == <<Strip(Join(tokens)), Strip(Join(tokens))>>

\* lines 298-306
KeepStreetToken(t) ==
    /\ t \notin STREET_TYPE_TOKENS
    /\ t \notin STREET_DROP_TOKENS
    /\ ~IsTechToken(t)

\* the tokens both keys are made of (lines 294-306)
StreetTokens(street_zone) ==
    Filter(Split(Strip(CollapseSpaces(normalize_street_part(street_zone)))),
           KeepStreetToken)

\* lines 308-311: <<street_key, street_key_bag>>
KeysOf(tokens) == <<Strip(Join(tokens)), Strip(Join(Sorted(tokens)))>>

_make_street_keys(street_zone) == KeysOf(StreetTokens(street_zone))

---------------------------------------------------------------------------
(* extract_components *)

\* re.sub(r"(\d)\s*<marker>\s*(\d)", r"\1 <marker>\2", a, flags=re.I)
CompactSplit(s, lower, upper) ==
    LET RECURSIVE go(_)
        go(i) ==
            IF i > Len(s) THEN <<>>
            ELSE LET j  == SkipSpace(s, i + 1)
                     j2 == SkipSpace(s, j + 1)
                 IN  IF /\ IsDigit(s[i])
                        /\ j <= Len(s) /\ s[j] \in {lower, upper}
                        /\ j2 <= Len(s) /\ IsDigit(s[j2])
                     THEN <<s[i], " ", lower, s[j2]>> \o go(j2 + 1)
                     ELSE <<s[i]>> \o go(i + 1)
    IN  go(1)

\* a.split(",")
RECURSIVE SplitComma(_)
SplitComma(s) ==
    IF \A i \in 1..Len(s) : s[i] # "," THEN <<s>>
    ELSE LET c == CHOOSE i \in 1..Len(s) : s[i] = "," /\ \A j \in 1..(i - 1) : s[j] # ","
         IN  <<SubSeq(s, 1, c - 1)>> \o SplitComma(SubSeq(s, c + 1, Len(s)))

\* [p.strip() for p in a.split(",") if p.strip()]
StripAll(ps) == [i \in DOMAIN ps |-> Strip(ps[i])]
NonEmpty(p) == p # <<>>
Parts(a) == Filter(StripAll(SplitComma(a)), NonEmpty)

\* lines 346-353: the house is in the last part; <<house_data, street_zone>>
ZoneOfLast(parts, house_data, stripped_last) ==
    <<house_data,
      IF _has_real_street_words(stripped_last) THEN stripped_last
      ELSE parts[Len(parts) - 1]>>

\* lines 356-358 and 361-363: the house is looked for in the whole string
ZoneOfAll(a, house_data) ==
    IF IsNil(house_data) THEN <<Nil, a>>
    ELSE <<house_data, _remove_house_from_segment(a, Val(house_data).span)>>

\* lines 344-358
HouseInLast(a, parts, house_data) ==
    IF IsNil(house_data) THEN ZoneOfAll(a, _parse_house_from_segment(a, FALSE))
    ELSE ZoneOfLast(parts, house_data,
                    _remove_house_from_segment(parts[Len(parts)], Val(house_data).span))

\* lines 341-363
HouseInParts(a, parts) ==
    IF Len(parts) >= 2
    THEN HouseInLast(a, parts, _parse_house_from_segment(parts[Len(parts)], TRUE))
    ELSE ZoneOfAll(a, _parse_house_from_segment(a, FALSE))

\* lines 337-363: <<house_data, street_zone>>
HouseAndZone(a) == HouseInParts(a, Parts(a))

\* lines 365-389
Components(address, a, house_data, keys) ==
    [raw |-> address,
     norm |-> a,
     street_key |-> keys[1],
     street_key_bag |-> keys[2],
     house_from |-> IF IsNil(house_data) THEN Nil ELSE Some(Val(house_data).house_from),
     house_to |-> IF IsNil(house_data) THEN Nil ELSE Some(Val(house_data).house_to),
     house_letter |-> IF IsNil(house_data) THEN <<>> ELSE Val(house_data).house_letter,
     corp |-> IF IsNil(house_data) THEN Nil ELSE Val(house_data).corp,
     str |-> IF IsNil(house_data) THEN Nil ELSE Val(house_data).str]

ComponentsIn(address, a, hz) == Components(address, a, hz[1], _make_street_keys(hz[2]))

\* lines 332-335
Expanded(address) ==
    CompactSplit(CompactSplit(normalize_street_part(norm_text(address)), "k", "K"),
                 "s", "S")

ExtractFrom(address, a) == ComponentsIn(address, a, HouseAndZone(a))

\* Nil for a missing or empty address, else Some of the components
extract_components(address) ==
    IF IsNil(address) \/ Val(address) = <<>> THEN Nil
    ELSE Some(ExtractFrom(Val(address), Expanded(Val(address))))

---------------------------------------------------------------------------
(* House / part comparators *)

\* houses_overlap with the second test of line 402 left out
houses_overlap_one_sided(a, b) ==
    IF IsNil(a.house_from) \/ IsNil(b.house_from) THEN FALSE
    ELSE ~(Val(a.house_to) < Val(b.house_from))

\* houses_overlap that lets two addresses without a house overlap
houses_overlap_houseless(a, b) ==
    IF IsNil(a.house_from) /\ IsNil(b.house_from) THEN TRUE
    ELSE IF IsNil(a.house_from) \/ IsNil(b.house_from) THEN FALSE
    ELSE ~(Val(a.house_to) < Val(b.house_from) \/ Val(b.house_to) < Val(a.house_from))

houses_overlap(a, b) ==
    IF IsNil(a.house_from) \/ IsNil(b.house_from) THEN FALSE
    ELSE LET a1 == Val(a.house_from)
             a2 == Val(a.house_to)
             b1 == Val(b.house_from)
             b2 == Val(b.house_to)
         IN  ~(a2 < b1 \/ b2 < a1)

\* str.lower() of a string
Lower(s) == [i \in DOMAIN s |-> LowerChar(s[i])]

\* (comp.get(field) or "").strip().lower()
PartValue(v) == IF IsNil(v) THEN <<>> ELSE Lower(Strip(Val(v)))

\* part_relation that takes a value present on one side only for a difference
PartRelationStrict(fa, fb) ==
    IF PartValue(fa) = PartValue(fb) THEN "ok" ELSE "mismatch"

\* part_relation on the two values of the field
PartRelationOf(fa, fb) ==
    LET va == PartValue(fa)
        vb == PartValue(fb)
    IN  IF va = <<>> /\ vb = <<>> THEN "ok"
        ELSE IF va # <<>> /\ vb # <<>> /\ va = vb THEN "ok"
        ELSE IF va # <<>> /\ vb # <<>> /\ va # vb THEN "mismatch"
        ELSE "unknown"

part_relation(comp_a, comp_b, field) == PartRelationOf(comp_a[field], comp_b[field])

---------------------------------------------------------------------------
(* Listings, the candidate index, compare_one *)

\* deal types
SALE == <<"s","a","l","e">>
RENT == <<"r","e","n","t">>
NO_DEAL == <<"n","o","_","d","e","a","l">>
MIXED == <<"m","i","x","e","d">>

\* the verdicts (result strings of compare_one, transliterated)
MATCHED == "Sovpalo"
AREA_MISMATCH == "Po adresu est, no ploshchad drugaya"
PART_MISMATCH == "Korpus/stroenie ne sovpalo"
DEAL_TYPE_MISMATCH == "U nas arenda, u konkurenta prodazha"
NOT_FOUND == "Net u nas"
Verdicts == {MATCHED, AREA_MISMATCH, PART_MISMATCH, DEAL_TYPE_MISMATCH, NOT_FOUND}
\* what the caller sees when compare_one raises instead of returning
RAISED == "TypeError"

\* the reason strings of the two NotFound exits; otherwise the reason is a listing
ADDRESS_NOT_PARSED == "Adres ne razobran"
NO_STREET_HOUSE_MATCH == "Sovpadenij po ulice+domu ne najdeno"
LISTING == "listing"

AREA_TOL == 5
\* 10**9, the distance of a missing area
FAR == 1000000000
\* all_found[:12]
SHOWN == 12

\* my_index.get(key, [])
IndexGet(idx, key) == IF key \in DOMAIN idx THEN idx[key] ELSE <<>>

\* idx.setdefault(key, []).append(it)
IndexAppend(idx, key, it) ==
    [k \in DOMAIN idx \cup {key} |-> IF k = key THEN Append(IndexGet(idx, key), it)
                                     ELSE idx[k]]

\* it["_comp"] = comp, with the address replaced by its normalized form
WithCompNormalized(it, comp) == [it EXCEPT !._comp = Some(comp), !.address = comp.norm]

\* it["_comp"] = comp
WithComp(it, comp) == [it EXCEPT !._comp = Some(comp)]

\* lines 1302-1305
IndexUnderBag(idx, it, k1, k2) ==
    IF k2 # <<>> /\ k2 # k1 THEN IndexAppend(idx, k2, it) ELSE idx
IndexUnderKeys(idx, it, k1, k2) ==
    IndexUnderBag(IF k1 # <<>> THEN IndexAppend(idx, k1, it) ELSE idx, it, k1, k2)

\* the body of the loop of build_my_index (lines 1294-1305)
IndexOne(idx, it, comp) ==
    IF IsNil(comp) THEN idx
    ELSE IndexUnderKeys(idx, WithComp(it, Val(comp)),
                        Val(comp).street_key, Val(comp).street_key_bag)

RECURSIVE IndexFrom(_, _, _)
IndexFrom(items, i, idx) ==
    IF i > Len(items) THEN idx
    ELSE IndexFrom(items, i + 1,
                   IndexOne(idx, items[i], extract_components(Some(items[i].address))))

build_my_index(items) == IndexFrom(items, 1, <<>>)

\* the catalog after build_my_index: every parsed item carries its components
ItemWithComp(it, comp) == IF IsNil(comp) THEN it ELSE WithComp(it, Val(comp))
ItemsWithComp(items) ==
    [i \in DOMAIN items |->
        ItemWithComp(items[i], extract_components(Some(items[i].address)))]

UniqueKey(x) == <<x.crm_url, x.address, x.area_m2, x.price_rub>>

RECURSIVE UniqueFrom(_, _, _)
UniqueFrom(items, i, seen) ==
    IF i > Len(items) THEN <<>>
    ELSE IF UniqueKey(items[i]) \in seen THEN UniqueFrom(items, i + 1, seen)
    ELSE <<items[i]>> \o UniqueFrom(items, i + 1, seen \cup {UniqueKey(items[i])})

_unique_items(items) == UniqueFrom(items, 1, {})

Abs(x) == IF x < 0 THEN 0 - x ELSE x

\* abs(float(a) - float(b)); float(None) raises TypeError: Nil
FloatAbsDiff(a, b) == IF IsNil(a) \/ IsNil(b) THEN Nil ELSE Some(Abs(Val(a) - Val(b)))

\* area_diff without the test for a missing area (line 1468)
area_diff_unguarded(comp_area, c) == FloatAbsDiff(comp_area, c.area_m2)

\* area_diff of compare_one: Some(distance), or Nil when it raises
area_diff(comp_area, c) ==
    IF IsNil(comp_area) \/ IsNil(c.area_m2) THEN Some(FAR)
    ELSE FloatAbsDiff(comp_area, c.area_m2)

\* sorted(items, key): stable, ascending
SortedBy(items, Key(_)) ==
    LET RECURSIVE ins(_, _)
        ins(x, sortedItems) ==
            IF sortedItems = <<>> THEN <<x>>
            ELSE IF Key(x) <= Key(sortedItems[1]) THEN <<x>> \o sortedItems
            ELSE <<sortedItems[1]>> \o ins(x, Tail(sortedItems))
        RECURSIVE go(_)
        go(i) == IF i > Len(items) THEN <<>> ELSE ins(items[i], go(i + 1))
    IN  go(1)

\* items[:n]
Take(items, n) == SubSeq(items, 1, IF Len(items) < n THEN Len(items) ELSE n)

\* min(pool, key=price): the first item with the least price
MinByPrice(pool) ==
    pool[CHOOSE i \in DOMAIN pool :
            /\ \A j \in DOMAIN pool : Val(pool[i].price_rub) <= Val(pool[j].price_rub)
            /\ \A j \in 1..(i - 1) : Val(pool[j].price_rub) > Val(pool[i].price_rub)]

\* str(x or "").strip().lower()
DealNorm(d) == IF IsNil(d) THEN <<>> ELSE Lower(Strip(Val(d)))

Priced(x) == ~IsNil(x.price_rub)

\* lines 1365-1382, pool and scope chosen
BestOf(pool, scope) ==
    IF pool = <<>> THEN <<Nil, Nil, "">>
    ELSE <<Some(Val(MinByPrice(pool).price_rub)), Some(MinByPrice(pool)), scope>>

\* lines 1358-1376 with the deal type left out: any priced item
PickAnyPriced(items, comp_deal_norm) == BestOf(Filter(items, Priced), "any_type")

\* lines 1358-1376 on the normalised deal type
PickPool(items, comp_deal_norm) ==
    LET SameDeal(x) == x.deal_type = comp_deal_norm /\ Priced(x)
        IsSale(x) == x.deal_type = SALE /\ Priced(x)
        IsRent(x) == x.deal_type = RENT /\ Priced(x)
    IN  IF Filter(items, SameDeal) # <<>> THEN BestOf(Filter(items, SameDeal), "same_deal")
        ELSE IF comp_deal_norm = SALE /\ Filter(items, IsSale) # <<>>
        THEN BestOf(Filter(items, IsSale), "sale_only")
        ELSE IF comp_deal_norm = RENT /\ Filter(items, IsRent) # <<>>
        THEN BestOf(Filter(items, IsRent), "rent_only")
        ELSE BestOf(Filter(items, Priced), "any_type")

\* <<price, item, scope>>
_pick_reference_price(items, comp_deal) ==
    IF items = <<>> THEN <<Nil, Nil, "">>
    ELSE PickPool(items, DealNorm(Some(comp_deal)))

\* lines 1397-1406; the alert by its direction, the percentage as the
\* fraction delta * 100 / comp_price
AlertOf(delta, comp_price) ==
    <<IF delta > 0 THEN "U nas dorozhe"
      ELSE IF delta < 0 THEN "U nas deshevle" ELSE "Cena ravna",
      Some(delta), Some([num |-> delta * 100, den |-> comp_price])>>

\* <<alert, delta_rub, delta_pct>>
_build_price_alert(comp_price, my_price) ==
    IF IsNil(comp_price) \/ IsNil(my_price) THEN <<"", Nil, Nil>>
    ELSE IF Val(comp_price) <= 0 THEN <<"", Nil, Nil>>
    ELSE AlertOf(Val(my_price) - Val(comp_price), Val(comp_price))

\* the two NotFound returns
NotFoundResult(why) ==
    [result |-> NOT_FOUND, reason |-> why, shown |-> <<>>,
     our_best_price_rub |-> Nil, our_best_link |-> Nil, price_scope |-> "",
     price_alert |-> "", price_diff_rub |-> Nil, price_diff_pct |-> Nil,
     matched_count |-> 0]

\* the four returns that report a pool of listings
ResultOf(verdict, pool, ref, alert) ==
    [result |-> verdict, reason |-> LISTING, shown |-> Take(pool, SHOWN),
     our_best_price_rub |-> ref[1],
     our_best_link |-> IF IsNil(ref[2]) THEN Nil ELSE Some(Val(ref[2]).crm_url),
     price_scope |-> ref[3],
     price_alert |-> alert[1], price_diff_rub |-> alert[2],
     price_diff_pct |-> alert[3],
     matched_count |-> Len(pool)]
ResultWithRef(verdict, pool, comp_price, ref) ==
    ResultOf(verdict, pool, ref, _build_price_alert(comp_price, ref[1]))
FoundResult(verdict, pool, comp_price, comp_deal) ==
    ResultWithRef(verdict, pool, comp_price, _pick_reference_price(pool, comp_deal))

\* the exception a failing float() lets escape
RaisedResult ==
    [result |-> RAISED, reason |-> RAISED, shown |-> <<>>,
     our_best_price_rub |-> Nil, our_best_link |-> Nil, price_scope |-> "",
     price_alert |-> "", price_diff_rub |-> Nil, price_diff_pct |-> Nil,
     matched_count |-> 0]

\* lines 1432-1441: the candidates under both keys, de-duplicated, house-filtered
Candidates(cc, idx) ==
    LET byKey == IF cc.street_key # <<>>
                 THEN IndexGet(idx, cc.street_key) ELSE <<>>
        byBag == IF cc.street_key_bag # <<>>
                 THEN IndexGet(idx, cc.street_key_bag) ELSE <<>>
        Overlaps(c) == houses_overlap(cc, Val(c._comp))
    IN  Filter(_unique_items(byKey \o byBag), Overlaps)

\* lines 1432-1438: the candidates under both keys, de-duplicated, before the
\* house filter
Probe(cc, idx) ==
    _unique_items((IF cc.street_key # <<>> THEN IndexGet(idx, cc.street_key) ELSE <<>>)
                  \o (IF cc.street_key_bag # <<>>
                      THEN IndexGet(idx, cc.street_key_bag) ELSE <<>>))

\* a partition that sets no candidate aside
PartitionNone(cc, candidates) == <<candidates, <<>>>>

\* lines 1456-1465: <<same_house, part_mismatch>>
Partition(cc, candidates) ==
    LET Mismatch(c) == \/ part_relation(cc, Val(c._comp), "corp") = "mismatch"
                       \/ part_relation(cc, Val(c._comp), "str") = "mismatch"
        Same(c) == ~Mismatch(c)
    IN  <<Filter(candidates, Same), Filter(candidates, Mismatch)>>

\* the pool left in the order of the candidates
SortedByAreaNone(comp_area, items) == items

\* sorted(items, key=area_diff)
SortedByArea(comp_area, items) ==
    LET Diff(c) == Val(area_diff(comp_area, c)) IN SortedBy(items, Diff)

\* area_diff raises on one of the items
AreaRaises(comp_area, items) ==
    \E i \in DOMAIN items : IsNil(area_diff(comp_area, items[i]))

\* the tolerance test of line 1493 with < for <=
CloseOnesStrict(comp_area, same_house_sorted) ==
    LET Close(c) == Val(area_diff(comp_area, c)) < AREA_TOL
    IN  Filter(same_house_sorted, Close)

\* line 1493
CloseOnes(comp_area, same_house_sorted) ==
    LET Close(c) == Val(area_diff(comp_area, c)) <= AREA_TOL
    IN  Filter(same_house_sorted, Close)

\* lines 1510-1541 without the test of the deal types
CompareCloseMatched(row, close) ==
    FoundResult(MATCHED, close, row.price_rub, DealNorm(row.deal_type))

\* lines 1510-1541
CompareClose(row, close) ==
    LET has_sale == \E i \in DOMAIN close : close[i].deal_type = SALE
        has_rent == \E i \in DOMAIN close : close[i].deal_type = RENT
    IN  IF DealNorm(row.deal_type) = SALE /\ ~has_sale /\ has_rent
        THEN FoundResult(DEAL_TYPE_MISMATCH, close, row.price_rub, DealNorm(row.deal_type))
        ELSE FoundResult(MATCHED, close, row.price_rub, DealNorm(row.deal_type))

\* lines 1493-1541
CompareSorted(row, same_house_sorted, close) ==
    IF close = <<>>
    THEN FoundResult(AREA_MISMATCH, same_house_sorted, row.price_rub,
                     DealNorm(row.deal_type))
    ELSE CompareClose(row, close)

\* lines 1490-1541
CompareSameHouse(row, same_house_sorted) ==
    CompareSorted(row, same_house_sorted, CloseOnes(row.area_m2, same_house_sorted))

\* lines 1473-1541
ComparePartition(row, same_house, part_mismatch) ==
    IF same_house = <<>> /\ part_mismatch # <<>>
    THEN IF AreaRaises(row.area_m2, part_mismatch) THEN RaisedResult
         ELSE FoundResult(PART_MISMATCH, SortedByArea(row.area_m2, part_mismatch),
                          row.price_rub, DealNorm(row.deal_type))
    ELSE IF AreaRaises(row.area_m2, same_house) THEN RaisedResult
    ELSE CompareSameHouse(row, SortedByArea(row.area_m2, same_house))

ComparePartitioned(row, split) == ComparePartition(row, split[1], split[2])

\* lines 1443-1541
CompareCandidates(row, cc, candidates) ==
    IF candidates = <<>> THEN NotFoundResult(NO_STREET_HOUSE_MATCH)
    ELSE ComparePartitioned(row, Partition(cc, candidates))

\* lines 1419-1541
CompareParsed(row, idx, cc) ==
    IF IsNil(cc) THEN NotFoundResult(ADDRESS_NOT_PARSED)
    ELSE IF Val(cc).street_key = <<>> /\ Val(cc).street_key_bag = <<>>
    THEN NotFoundResult(ADDRESS_NOT_PARSED)
    ELSE CompareCandidates(row, Val(cc), Candidates(Val(cc), idx))

compare_one(row, idx) == CompareParsed(row, idx, extract_components(row.address))

---------------------------------------------------------------------------
(* Runs.  Each specification drives one part of the core; the variables of *)
(* the other parts stay Nil.                                               *)

NormIdle == raw = Nil /\ norm1 = Nil /\ norm2 = Nil
PairIdle == addr_a = Nil /\ addr_b = Nil /\ parsed_a = Nil /\ parsed_b = Nil
            /\ ovl = Nil /\ rel = Nil
BoardIdle == groups = <<>> /\ u_trace = <<>> /\ s_obj = <<>> /\ final_result = Nil
MatchIdle == my_items = Nil /\ my_index = Nil /\ comp_row = Nil
             /\ comp_comp = Nil /\ out = Nil
VoteIdle == respondent_vote = <<>> /\ last_id = 0 /\ handlers = <<>>
            /\ votes_file = 0 /\ card = <<>>

\* "".join(parts)
RECURSIVE Flat(_)
Flat(parts) == IF parts = <<>> THEN <<>> ELSE Head(parts) \o Flat(Tail(parts))

\* all sequences of at most n elements of S
SeqsUpTo(S, n) == UNION {[1..k -> S] : k \in 0..n}

(* --- the normaliser: normalize applied once, then again --- *)

MaxTokens == 3

\* the pieces raw strings are made of: street-type words long and short, with
\* their hyphenated forms, a descriptor, upper case, and every kind of
\* punctuation norm_text treats
NormTokens ==
    { <<"p","r">>, <<"-","t">>, <<"-","k","t">>, <<"U","l","i","c","a">>,
      <<"k","o","r","p","u","s">>, <<" ">>, <<",">>, <<".">>, <<"No">>,
      <<"YO">>, <<"bs">>, <<"7">> }

RawInputs == {Flat(ts) : ts \in SeqsUpTo(NormTokens, MaxTokens)}

InitNorm ==
    /\ pc = "raw"
    /\ raw \in RawInputs
    /\ norm1 = Nil /\ norm2 = Nil
    /\ PairIdle /\ MatchIdle /\ BoardIdle /\ VoteIdle

Normalize ==
    /\ pc = "raw"
    /\ norm1' = normalize(raw)
    /\ pc' = "once"
    /\ UNCHANGED <<raw, norm2, pairVars, matchVars, boardVars, voteVars>>

Renormalize ==
    /\ pc = "once"
    /\ norm2' = normalize(norm1)
    /\ pc' = "twice"
    /\ UNCHANGED <<raw, norm1, pairVars, matchVars, boardVars, voteVars>>

NextNorm == Normalize \/ Renormalize

SpecNorm == InitNorm /\ [][NextNorm]_vars

\* C6: normalisation is idempotent: normalising a normalised string changes
\* nothing, normalize(normalize(x)) = normalize(x), for every raw string x.
C6_NormalizeIdempotent == pc = "twice" => norm2 = norm1

(* --- the comparators: two addresses parsed, then compared --- *)

\* house numbers run from FirstHouse to FirstHouse + HouseSpan
HouseSpan == 3
HouseNumbers == 7..(7 + HouseSpan)

\* str() of a natural number
RECURSIVE Str(_)
Str(n) == IF n < 10 THEN <<DigitChars[n + 1]>>
          ELSE Str(n \div 10) \o <<DigitChars[(n % 10) + 1]>>

\* the house part: a single number or a range (either order), alone or with
\* a corpus or a building
HouseForms ==
    LET numbers == {Str(h) : h \in HouseNumbers}
                   \cup {Str(h1) \o <<"-">> \o Str(h2) : h1, h2 \in HouseNumbers}
        parts == { <<>>, <<"k","1">>, <<" ","k","o","r","p","u","s"," ","2">>,
                   <<"s","1">> }
    IN  {n \o q : n \in numbers, q \in parts}

\* the string without the characters c
Without(s, c) == SelectSeq(s, LAMBDA x : x # c)
Count(s, c) == Len(SelectSeq(s, LAMBDA x : x = c))
\* every comma is followed by one space and no second one, unless it ends
\* the string
CommasRendered(s) ==
    \A i \in DOMAIN s : s[i] = "," =>
        /\ i < Len(s) => s[i + 1] = " "
        /\ i + 1 < Len(s) => s[i + 2] # " "
CommasSurvive(s) ==
    /\ Count(norm_text(s), ",") = Count(s, ",")
    /\ CommasRendered(norm_text(s))

\* C27: norm_text strips the numero sign and backslashes and removes
\* . ; : ( ) [ ] { } but keeps commas: a numero sign contributes no character
\* to the normalized string, which is that of the input without the sign, and
\* every comma of the input survives, rendered ', '.
C27_NumeroGoneCommasKept ==
    pc = "once" =>
        /\ norm_text(raw) = norm_text(Without(raw, "No"))
        /\ CommasSurvive(raw)

\* C27 without the numero sign: backslashes and punctuation leave nothing
\* but a space, every comma survives
C27_CommasKept ==
    pc = "once" =>
        /\ CommasSurvive(raw)
        /\ \A i \in DOMAIN norm_text(raw) : ~IsPunct(norm_text(raw)[i]) /\ norm_text(raw)[i] # "bs"
        /\ "No" \notin Range(norm_text(raw))

\* one street, with and without a house
PairAddresses ==
    {<<"u","l"," ","l","e","n",","," ">> \o h : h \in HouseForms}
    \cup {<<"u","l"," ","l","e","n">>}

InitPair ==
    /\ pc = "addresses"
    /\ addr_a \in PairAddresses
    /\ addr_b \in PairAddresses
    /\ parsed_a = Nil /\ parsed_b = Nil /\ ovl = Nil /\ rel = Nil
    /\ NormIdle /\ MatchIdle /\ BoardIdle /\ VoteIdle

Extract ==
    /\ pc = "addresses"
    /\ parsed_a' = Val(extract_components(Some(addr_a)))
    /\ parsed_b' = Val(extract_components(Some(addr_b)))
    /\ pc' = "parsed"
    /\ UNCHANGED <<addr_a, addr_b, ovl, rel, normVars, matchVars, boardVars, voteVars>>

Overlap ==
    /\ pc = "parsed"
    /\ ovl' = [ab |-> houses_overlap(parsed_a, parsed_b),
               ba |-> houses_overlap(parsed_b, parsed_a)]
    /\ pc' = "overlap"
    /\ UNCHANGED <<addr_a, addr_b, parsed_a, parsed_b, rel, normVars, matchVars, boardVars, voteVars>>

NextPair == Extract \/ Overlap

SpecPair == InitPair /\ [][NextPair]_vars

HasHouse(p) == ~IsNil(p.house_from)

\* the closed interval [house_from, house_to] of a parsed address
HouseInterval(p) ==
    IF HasHouse(p) /\ ~IsNil(p.house_to)
    THEN Val(p.house_from)..Val(p.house_to) ELSE {}

\* house_from <= house_to when both present, and both absent together
RangeOrdered(p) ==
    /\ IsNil(p.house_to) <=> IsNil(p.house_from)
    /\ (~IsNil(p.house_from) /\ ~IsNil(p.house_to))
          => Val(p.house_from) <= Val(p.house_to)

\* C7: every value extract_components returns has house_from <= house_to
\* when both are present, and house_to absent exactly when house_from is,
\* for every address, ranges written larger number first included.
C7_HouseRangeOrdered ==
    pc # "addresses" => RangeOrdered(parsed_a) /\ RangeOrdered(parsed_b)

\* the part of C7 the code keeps: house_to is absent exactly when house_from is
C7_HouseToAbsentWithFrom ==
    pc # "addresses" =>
        /\ IsNil(parsed_a.house_to) <=> IsNil(parsed_a.house_from)
        /\ IsNil(parsed_b.house_to) <=> IsNil(parsed_b.house_from)

\* C8: houses_overlap(a, b) is true exactly when both sides have a house
\* number and the closed intervals [house_from, house_to] of the two sides
\* share a number; it is false when a side has no house number.
C8_OverlapIffIntersect ==
    pc = "overlap" =>
        (ovl.ab <=> /\ HasHouse(parsed_a) /\ HasHouse(parsed_b)
                    /\ HouseInterval(parsed_a) \cap HouseInterval(parsed_b) # {})

\* C8 where both ranges are written smaller number first: there the test of
\* houses_overlap is the intersection of the intervals
C8_OverlapOfOrderedRanges ==
    (pc = "overlap" /\ RangeOrdered(parsed_a) /\ RangeOrdered(parsed_b)) =>
        (ovl.ab <=> /\ HasHouse(parsed_a) /\ HasHouse(parsed_b)
                    /\ HouseInterval(parsed_a) \cap HouseInterval(parsed_b) # {})

\* C9: houses_overlap is symmetric, houses_overlap(a, b) = houses_overlap(b, a),
\* for every pair of components: with or without a house number, single
\* houses and ranges.
C9_OverlapSymmetric == pc = "overlap" => ovl.ab = ovl.ba

\* a range against a single house outside it on the upper side, compared
C9_RangeAgainstHouse ==
    /\ pc = "overlap"
    /\ HasHouse(parsed_a)
    /\ Val(parsed_a.house_from) < Val(parsed_a.house_to)
    /\ HasHouse(parsed_b)
    /\ Val(parsed_b.house_from) = Val(parsed_b.house_to)
    /\ Val(parsed_a.house_to) < Val(parsed_b.house_from)
    /\ ~ovl.ab

(* --- part_relation on a pair of field values --- *)

\* field values as a caller may hand them to part_relation: absent, empty,
\* what extract_components yields ("1", "2", "1a"), padded and upper case
RawPartValues ==
    {Nil, Some(<<>>), Some(<<" ">>), Some(<<"1">>), Some(<<" ","1"," ">>),
     Some(<<"2">>), Some(<<"1","a">>), Some(<<"1","A">>), Some(<<"2","a">>),
     Some(<<"1","2">>)}

InitPart ==
    /\ pc = "values"
    /\ \E va, vb \in RawPartValues : rel = [a |-> va, b |-> vb, ab |-> "", ba |-> ""]
    /\ addr_a = Nil /\ addr_b = Nil /\ parsed_a = Nil /\ parsed_b = Nil /\ ovl = Nil
    /\ NormIdle /\ MatchIdle /\ BoardIdle /\ VoteIdle

PartRelation ==
    /\ pc = "values"
    /\ \E field \in {"corp", "str"} :
          rel' = [rel EXCEPT
                    !.ab = part_relation([corp |-> rel.a, str |-> rel.a],
                                         [corp |-> rel.b, str |-> rel.b], field),
                    !.ba = part_relation([corp |-> rel.b, str |-> rel.b],
                                         [corp |-> rel.a, str |-> rel.a], field)]
    /\ pc' = "related"
    /\ UNCHANGED <<addr_a, addr_b, parsed_a, parsed_b, ovl, normVars, matchVars, boardVars, voteVars>>

NextPart == PartRelation

SpecPart == InitPart /\ [][NextPart]_vars

\* a field value as part_relation reads it: absent is empty, trimmed, lower case
Trimmed(v) == IF IsNil(v) THEN <<>> ELSE Lower(Strip(Val(v)))

\* C10: part_relation is "ok" when both values are empty or both are equal
\* after trimming and lower-casing, "mismatch" when both are non-empty and
\* different, "unknown" when exactly one is non-empty; the three cases are
\* exhaustive and exclusive, and swapping the sides leaves the result.
C10_PartRelationCases ==
    pc = "related" =>
        LET va == Trimmed(rel.a)
            vb == Trimmed(rel.b)
        IN  /\ rel.ab \in {"ok", "mismatch", "unknown"}
            /\ rel.ab = "ok" <=> ((va = <<>> /\ vb = <<>>) \/ va = vb)
            /\ rel.ab = "mismatch" <=> (va # <<>> /\ vb # <<>> /\ va # vb)
            /\ rel.ab = "unknown" <=> ((va = <<>>) # (vb = <<>>))
            /\ rel.ba = rel.ab

\* a value on one side only, related: "unknown" both ways
C10_OneSideOnly ==
    /\ pc = "related"
    /\ rel.a = Some(<<"1","A">>)
    /\ rel.b = Some(<<" ">>)
    /\ rel.ab = "unknown"
    /\ rel.ba = "unknown"

(* --- the matcher: a catalog loaded, indexed, then probed by a row --- *)

MaxItems == 2

\* one item of parse_my_xml
Listing(address, area, deal, price, url) ==
    [deal_type |-> deal, status |-> "Na sajte", address |-> address,
     area_m2 |-> area, price_rub |-> price, crm_url |-> url, _comp |-> Nil]

\* the listings a catalog is drawn from: one house under both deal types and
\* twice under one link, corpus 1 and corpus 2 of it in three notations, a
\* range without an area, another street, a street without a house, and
\* a house without a street
CatalogListings ==
    { Listing(<<"u","l"," ","l","e","n",","," ","7">>, Some(100), SALE, Some(50), "u1"),
      Listing(<<"u","l"," ","l","e","n",","," ","7">>, Some(100), RENT, Some(40), "u2"),
      Listing(<<"u","l"," ","l","e","n",","," ","7">>, Some(100), RENT, Some(50), "u1"),
      Listing(<<"u","l"," ","l","e","n",","," ","7","k","1">>, Some(105), SALE, Nil, "u3"),
      Listing(<<"u","l","i","c","a"," ","l","e","n",","," ","7","k","2">>, Some(100), SALE, Some(60), "u4"),
      Listing(<<"l","e","n"," ","u","l",","," ","7"," ","k","o","r","p","u","s"," ","2">>, Some(106), RENT, Some(30), "u5"),
      Listing(<<"l","e","n",","," ","7","-","9">>, Nil, NO_DEAL, Some(70), "u6"),
      Listing(<<"p","r"," ","m","i","r",","," ","7">>, Some(100), SALE, Some(10), "u7"),
      Listing(<<"u","l"," ","l","e","n">>, Some(100), SALE, Some(20), "u8"),
      Listing(<<"u","l"," ","l","e","n",","," ","7">>, Some(94), SALE, Some(45), "u9"),
      Listing(<<"7">>, Some(100), RENT, Some(15), "u10") }

\* one row of a competitor's table
Row(address, area, deal, price) ==
    [deal_type |-> deal, address |-> address, area_m2 |-> area, price_rub |-> price]

\* absent, empty, a house without a street, a street without a house, and
\* houses of the catalog's street, one a range written larger number first
QueryAddresses ==
    { Nil, Some(<<>>), Some(<<"7">>), Some(<<"u","l"," ","l","e","n">>), Some(<<"u","l"," ","l","e","n",","," ","7">>), Some(<<"l","e","n"," ","u","l","i","c","a",","," ","7","k","1">>),
      Some(<<"u","l"," ","l","e","n",","," ","8">>),
      Some(<<"u","l"," ","l","e","n",","," ","9","-","7">>) }

QueryDeals ==
    { Some(SALE), Some(RENT), Some(NO_DEAL), Some(MIXED), Some(<<>>), Nil,
      Some(<<" ","S","a","l","e">>) }

QueryRows ==
    {Row(a, Some(100), d, Some(50)) : a \in QueryAddresses, d \in QueryDeals}
    \cup {Row(a, Nil, Some(SALE), Nil) : a \in QueryAddresses}
    \cup {Row(a, Some(100), Some(RENT), Some(0)) : a \in QueryAddresses}

Init ==
    /\ pc = "load"
    /\ my_items = <<>>
    /\ my_index = <<>>
    /\ comp_row = Nil
    /\ comp_comp = Nil
    /\ out = Nil
    /\ NormIdle /\ PairIdle /\ BoardIdle /\ VoteIdle

\* parse_my_xml appends one more listing
AddItem ==
    /\ pc = "load"
    /\ Len(my_items) < MaxItems
    /\ \E it \in CatalogListings : my_items' = Append(my_items, it)
    /\ UNCHANGED <<pc, my_index, comp_row, comp_comp, out, normVars, pairVars, boardVars, voteVars>>

\* build_my_index: the index, and the components left on the listings
BuildIndex ==
    /\ pc = "load"
    /\ my_index' = build_my_index(my_items)
    /\ my_items' = ItemsWithComp(my_items)
    /\ pc' = "indexed"
    /\ UNCHANGED <<comp_row, comp_comp, out, normVars, pairVars, boardVars, voteVars>>

\* compare_one on one of the rows
Compare(rows) ==
    /\ pc = "indexed"
    /\ \E row \in rows :
          /\ comp_row' = row
          /\ comp_comp' = extract_components(row.address)
          /\ out' = compare_one(row, my_index)
    /\ pc' = "compared"
    /\ UNCHANGED <<my_items, my_index, normVars, pairVars, boardVars, voteVars>>

CompareOne == Compare(QueryRows)

Next == AddItem \/ BuildIndex \/ CompareOne

Spec == Init /\ [][Next]_vars

\* the components of the row compared (of an address that parses)
Query == Val(comp_comp)
QueryParsed == ~IsNil(comp_comp)

\* the row's deal type as compare_one reads it
QueryDeal == IF IsNil(comp_row.deal_type) THEN <<>> ELSE Lower(Strip(Val(comp_row.deal_type)))

\* the catalog listings that carry components
Parsed == {i \in DOMAIN my_items : ~IsNil(my_items[i]._comp)}
CompOf(i) == Val(my_items[i]._comp)

\* a non-empty key of q equals a key of c
SameStreet(q, c) ==
    \E kq \in {q.street_key, q.street_key_bag},
       kc \in {c.street_key, c.street_key_bag} : kq # <<>> /\ kq = kc

PartsDiffer(q, c) ==
    \/ part_relation(q, c, "corp") = "mismatch"
    \/ part_relation(q, c, "str") = "mismatch"

AreasWithinTol(i) ==
    /\ ~IsNil(comp_row.area_m2)
    /\ ~IsNil(my_items[i].area_m2)
    /\ Val(comp_row.area_m2) - Val(my_items[i].area_m2) <= AREA_TOL
    /\ Val(my_items[i].area_m2) - Val(comp_row.area_m2) <= AREA_TOL

\* the listings the claim C1 speaks of
EquivalentKeyed(i) ==
    /\ SameStreet(Query, CompOf(i))
    /\ houses_overlap(Query, CompOf(i))
    /\ ~PartsDiffer(Query, CompOf(i))
    /\ AreasWithinTol(i)

\* C1 as stated: a catalog listing with an equal key, an overlapping house
\* range, no corpus/building mismatch and an area within AREA_TOL makes
\* compare_one return Matched, whatever the deal types and the other listings.
C1_EquivalentIsMatched ==
    (pc = "compared" /\ QueryParsed /\ \E i \in Parsed : EquivalentKeyed(i))
        => out.result = MATCHED

\* C1: when a catalog listing shares a non-empty street key with the row, the
\* house ranges overlap, neither corpus nor building mismatch and the areas are
\* within AREA_TOL, compare_one returns Matched or DealTypeMismatch whatever
\* else the catalog holds: DealTypeMismatch only for a sale row with a rent
\* listing among such listings, and always for a sale row when all of them are
\* rent; Matched for every row that is not a sale or that meets no rent.
C1_EquivalentIsMatchedOrDealType ==
    (pc = "compared" /\ QueryParsed /\ \E i \in Parsed : EquivalentKeyed(i))
        => LET W == {i \in Parsed : EquivalentKeyed(i)}
               rents == {i \in W : my_items[i].deal_type = RENT}
           IN  /\ out.result \in {MATCHED, DEAL_TYPE_MISMATCH}
               /\ out.result = DEAL_TYPE_MISMATCH => (QueryDeal = SALE /\ rents # {})
               /\ (QueryDeal = SALE /\ rents = W) => out.result = DEAL_TYPE_MISMATCH
               /\ (QueryDeal # SALE \/ rents = {}) => out.result = MATCHED

\* a rent row matched by a sale listing in a catalog of two
C1_RentRowSaleListing ==
    /\ pc = "compared"
    /\ QueryParsed
    /\ Len(my_items) = 2
    /\ QueryDeal = RENT
    /\ \E i \in Parsed : EquivalentKeyed(i) /\ my_items[i].deal_type = SALE
    /\ out.result = MATCHED

\* the listings under the row's street with an overlapping house, split by
\* corpus/building: A without a mismatch, B with one
Found == IF QueryParsed
         THEN {i \in Parsed : SameStreet(Query, CompOf(i)) /\ houses_overlap(Query, CompOf(i))}
         ELSE {}
PartA == {i \in Found : ~PartsDiffer(Query, CompOf(i))}
PartB == {i \in Found : PartsDiffer(Query, CompOf(i))}

\* distinct listings: one per (link, address, area, price)
Distinct(S) == {UniqueKey(my_items[i]) : i \in S}

\* C3: when every listing found under the row's street keys with an
\* overlapping house mismatches on corpus or building (A empty, B non-empty),
\* compare_one returns PartMismatch, matched_count is the number of listings
\* of B and the reference price is a price of B (none when B has no price);
\* and a listing of B is never among the listings of a Matched, AreaMismatch
\* or DealTypeMismatch verdict.
C3_PartMismatch ==
    pc = "compared" =>
        /\ (PartA = {} /\ PartB # {}) =>
              /\ out.result = PART_MISMATCH
              /\ out.matched_count = Cardinality(Distinct(PartB))
              /\ {out.shown[k].crm_url : k \in DOMAIN out.shown}
                    = {my_items[i].crm_url : i \in PartB}
              /\ IF \A i \in PartB : IsNil(my_items[i].price_rub)
                 THEN IsNil(out.our_best_price_rub)
                 ELSE \E i \in PartB :
                         /\ out.our_best_price_rub = my_items[i].price_rub
                         /\ out.our_best_link = Some(my_items[i].crm_url)
                         /\ ~IsNil(my_items[i].price_rub)
        /\ out.result \in {MATCHED, AREA_MISMATCH, DEAL_TYPE_MISMATCH} =>
              /\ \A k \in DOMAIN out.shown :
                    ~PartsDiffer(Query, Val(out.shown[k]._comp))
              /\ out.matched_count <= Cardinality(Distinct(PartA))

\* corpus 1 asked, only corpus 2 in the catalog, in two notations
C3_OnlyOtherCorpus ==
    /\ pc = "compared"
    /\ PartA = {}
    /\ Cardinality(PartB) = 2
    /\ out.result = PART_MISMATCH
    /\ out.matched_count = 2
    /\ out.our_best_price_rub = Some(30)

\* C4: compare_one is total and its result is one of the five verdicts, for
\* every row (address a string or absent, area and price a number or absent,
\* any deal type) and every index build_my_index builds.
C4_AlwaysAVerdict == pc = "compared" => out.result \in Verdicts

\* a row without an area and with an unknown deal type against a catalog
\* that holds its house
C4_RowWithoutArea ==
    /\ pc = "compared"
    /\ IsNil(comp_row.area_m2)
    /\ PartA # {}
    /\ out.result = AREA_MISMATCH

NothingReported ==
    /\ out.matched_count = 0
    /\ IsNil(out.our_best_price_rub)
    /\ IsNil(out.our_best_link)
    /\ out.price_alert = ""
    /\ IsNil(out.price_diff_rub)
    /\ IsNil(out.price_diff_pct)

\* the address is absent, empty, or gives two empty keys
Unkeyed ==
    \/ IsNil(comp_row.address)
    \/ comp_row.address = Some(<<>>)
    \/ ~QueryParsed
    \/ (Query.street_key = <<>> /\ Query.street_key_bag = <<>>)

\* C5: an address that is absent, empty or without street keys gives NotFound
\* with the reason "address not parsed"; an address with a street key and no
\* house block has house_from and house_to null and gives NotFound with the
\* reason "no street+house match"; in both cases matched_count is 0 and no
\* reference price or price alert is reported.
C5_UnparsedIsNotFound ==
    pc = "compared" =>
        /\ Unkeyed =>
              /\ out.result = NOT_FOUND
              /\ out.reason = ADDRESS_NOT_PARSED
              /\ NothingReported
        /\ (~Unkeyed /\ IsNil(Query.house_from)) =>
              /\ IsNil(Query.house_to)
              /\ out.result = NOT_FOUND
              /\ out.reason = NO_STREET_HOUSE_MATCH
              /\ NothingReported

\* a street without a house asked of a catalog that holds the same street
\* without a house
C5_StreetWithoutHouse ==
    /\ pc = "compared"
    /\ ~Unkeyed
    /\ IsNil(Query.house_from)
    /\ \E i \in Parsed : SameStreet(Query, CompOf(i)) /\ IsNil(CompOf(i).house_from)
    /\ out.reason = NO_STREET_HOUSE_MATCH

\* the candidates after _unique_items: of the listings found that share link,
\* address, area and price, the first of the catalog
Kept == {i \in Found : \A j \in Found : j < i => UniqueKey(my_items[j]) # UniqueKey(my_items[i])}
PoolA == {i \in Kept : ~PartsDiffer(Query, CompOf(i))}
PoolB == {i \in Kept : PartsDiffer(Query, CompOf(i))}
Close == {i \in PoolA : AreasWithinTol(i)}

\* the pool the verdict reports
VerdictPool ==
    IF out.result = PART_MISMATCH THEN PoolB
    ELSE IF out.result = AREA_MISMATCH THEN PoolA
    ELSE IF out.result \in {MATCHED, DEAL_TYPE_MISMATCH} THEN Close
    ELSE {}

PricedIn(S) == {i \in S : ~IsNil(my_items[i].price_rub)}
OfDeal(S, deal) == {i \in PricedIn(S) : my_items[i].deal_type = deal}
PriceOf(i) == Val(my_items[i].price_rub)

\* the reference price and link are those of a cheapest listing of S
CheapestOf(S) ==
    \E i \in S : /\ out.our_best_price_rub = Some(PriceOf(i))
                 /\ out.our_best_link = Some(my_items[i].crm_url)
                 /\ \A j \in S : PriceOf(i) <= PriceOf(j)

\* C16: for every verdict but NotFound, when the verdict's pool (B for
\* PartMismatch, A for AreaMismatch, close for Matched and DealTypeMismatch)
\* holds priced listings of the row's deal type, the reference price is the
\* least price among them and the reference listing is one of them with
\* that price.
C16_MinOverSameDeal ==
    (pc = "compared" /\ out.result \in Verdicts \ {NOT_FOUND}
       /\ OfDeal(VerdictPool, QueryDeal) # {})
        => CheapestOf(OfDeal(VerdictPool, QueryDeal))

\* a sale row, matched by a sale listing and a cheaper rent listing: the
\* sale listing's price is the reference
C16_CheaperOtherDeal ==
    /\ pc = "compared"
    /\ out.result = MATCHED
    /\ QueryDeal = SALE
    /\ \E i \in OfDeal(Close, SALE), j \in OfDeal(Close, RENT) :
          /\ PriceOf(j) < PriceOf(i)
          /\ out.our_best_price_rub = Some(PriceOf(i))

\* C18: with close non-empty the verdict is DealTypeMismatch if and only if
\* the row is a sale, close holds no sale listing and holds a rent listing;
\* otherwise it is Matched; matched_count is the size of close.
C18_DealTypeMismatchIff ==
    (pc = "compared" /\ Close # {})
        => /\ out.matched_count = Cardinality(Close)
           /\ out.result =
                 IF /\ QueryDeal = SALE
                    /\ \A i \in Close : my_items[i].deal_type # SALE
                    /\ \E i \in Close : my_items[i].deal_type = RENT
                 THEN DEAL_TYPE_MISMATCH ELSE MATCHED

\* a sale row against two rent listings of its house and area
C18_SaleRowTwoRents ==
    /\ pc = "compared"
    /\ QueryDeal = SALE
    /\ Cardinality(Close) = 2
    /\ \A i \in Close : my_items[i].deal_type = RENT
    /\ out.result = DEAL_TYPE_MISMATCH
    /\ out.matched_count = 2

\* the area reported for a listing shown
HasArea(x) == ~IsNil(x.area_m2)
NoAreaLast == \A k, l \in DOMAIN out.shown :
                  (k < l /\ ~HasArea(out.shown[k])) => ~HasArea(out.shown[l])

\* A is not empty and none of its listings is within the tolerance: what
\* compare_one reports
AreaMismatchReported ==
    /\ out.result = AREA_MISMATCH
    /\ out.matched_count = Cardinality(PoolA)
    /\ {out.shown[k].crm_url : k \in DOMAIN out.shown} = {my_items[i].crm_url : i \in PoolA}
    /\ IF PricedIn(PoolA) = {} THEN IsNil(out.our_best_price_rub)
       ELSE \E i \in PricedIn(PoolA) : out.our_best_price_rub = Some(PriceOf(i))
NeverCloseWithoutArea ==
    (IsNil(comp_row.area_m2) \/ \A i \in PoolA : IsNil(my_items[i].area_m2))
        => out.result \notin {MATCHED, DEAL_TYPE_MISMATCH}

\* C19: when A is not empty and none of its listings is within AREA_TOL of
\* the row's area, the verdict is AreaMismatch, matched_count is the size of
\* A and the reference price is taken over A; a missing area is an infinite
\* distance and never raises; a row without an area, or one whose candidates
\* all lack an area, is never Matched nor DealTypeMismatch; listings without
\* an area come after all listings with one.
C19_AreaMismatch ==
    pc = "compared" =>
        /\ out.result # RAISED
        /\ (PoolA # {} /\ Close = {}) => AreaMismatchReported
        /\ NeverCloseWithoutArea
        /\ NoAreaLast

\* C19 with the order stated for a row that has an area: a row without one
\* is at the same distance from every listing
C19_AreaMismatchOrderedByKnownArea ==
    pc = "compared" =>
        /\ out.result # RAISED
        /\ (PoolA # {} /\ Close = {}) => AreaMismatchReported
        /\ NeverCloseWithoutArea
        /\ ~IsNil(comp_row.area_m2) => NoAreaLast

\* a listing without an area ahead, in the catalog, of one 6 off the row's area
C19_NoAreaAfterFarArea ==
    /\ pc = "compared"
    /\ ~IsNil(comp_row.area_m2)
    /\ out.result = AREA_MISMATCH
    /\ Len(out.shown) = 2
    /\ HasArea(out.shown[1]) /\ ~HasArea(out.shown[2])
    /\ \E i, j \in PoolA : i < j /\ IsNil(my_items[i].area_m2) /\ ~IsNil(my_items[j].area_m2)

\* C20: when the verdict's pool holds no priced listing of the row's deal
\* type and the row is a sale (a rent), the reference price is the least
\* price of the sale (rent) listings among the other candidates, if there
\* are any; if not, the least price of any priced listing; and absent when
\* no listing is priced.
C20_FallbackToWiderPool ==
    (pc = "compared" /\ out.result \in Verdicts \ {NOT_FOUND}
       /\ QueryDeal \in {SALE, RENT} /\ OfDeal(VerdictPool, QueryDeal) = {})
        => IF OfDeal(Kept, QueryDeal) # {} THEN CheapestOf(OfDeal(Kept, QueryDeal))
           ELSE IF PricedIn(VerdictPool) # {} THEN CheapestOf(PricedIn(VerdictPool))
           ELSE IsNil(out.our_best_price_rub)

\* C20 as the code has it: without a priced listing of the row's deal type in
\* the verdict's pool, the least price of any priced listing of that pool
C20_FallbackWithinPool ==
    (pc = "compared" /\ out.result \in Verdicts \ {NOT_FOUND}
       /\ OfDeal(VerdictPool, QueryDeal) = {})
        => IF PricedIn(VerdictPool) # {}
           THEN CheapestOf(PricedIn(VerdictPool)) /\ out.price_scope = "any_type"
           ELSE IsNil(out.our_best_price_rub) /\ IsNil(out.our_best_link)

\* the row has a key to probe the index with
Keyed == QueryParsed /\ ~(Query.street_key = <<>> /\ Query.street_key_bag = <<>>)

\* the catalog listings under one of the row's keys
UnderKeys == IF Keyed THEN {i \in Parsed : SameStreet(Query, CompOf(i))} ELSE {}

\* how often x is among the candidates probed, as a listing and by the
\* fields _unique_items looks at
TimesProbed(x) ==
    Cardinality({k \in DOMAIN Probe(Query, my_index) : Probe(Query, my_index)[k] = x})
TimesProbedByKey(x) ==
    Cardinality({k \in DOMAIN Probe(Query, my_index) :
                    UniqueKey(Probe(Query, my_index)[k]) = UniqueKey(x)})

\* C21: for a row with a non-empty key the candidates before the house
\* filter hold every catalog listing with a street key or bag key equal to
\* one of the row's, each distinct listing exactly once: a listing under
\* both keys is not counted twice and no distinct listing is dropped.
C21_ProbeCompleteAndUnique ==
    (pc = "compared" /\ Keyed)
        => /\ \A i \in UnderKeys : TimesProbed(my_items[i]) = 1
           /\ \A k \in DOMAIN Probe(Query, my_index) :
                 \E i \in UnderKeys : Probe(Query, my_index)[k] = my_items[i]

\* C21 with listings told apart by link, address, area and price only
C21_ProbeCompleteByUniqueKey ==
    (pc = "compared" /\ Keyed)
        => /\ \A i \in UnderKeys : TimesProbedByKey(my_items[i]) = 1
           /\ \A k \in DOMAIN Probe(Query, my_index) :
                 \E i \in UnderKeys : Probe(Query, my_index)[k] = my_items[i]

\* a catalog listing without what build_my_index attached to it
WithoutComp(it) == [it EXCEPT !._comp = Nil]
\* every listing the index holds under some key
Indexed(idx) == UNION {Range(idx[k]) : k \in DOMAIN idx}

\* build_my_index ran in this step / compare_one ran in this step
IndexBuilt == pc = "load" /\ pc' = "indexed"
RowCompared == pc = "indexed" /\ pc' = "compared"

Orders(n) == {p \in [1..n -> 1..n] : \A i, j \in 1..n : p[i] = p[j] => i = j}
Reordered(items, p) == [i \in DOMAIN items |-> items[p[i]]]
SameOutcome(o) ==
    /\ o.result = out.result
    /\ o.matched_count = out.matched_count
    /\ o.our_best_price_rub = out.our_best_price_rub
OrderIndependent ==
    \A p \in Orders(Len(my_items)) :
        SameOutcome(compare_one(comp_row, build_my_index(Reordered(my_items, p))))

\* two listings of the catalog that differ, yet not in link, address, area
\* or price
Twins == \E i, j \in DOMAIN my_items :
            my_items[i] # my_items[j] /\ UniqueKey(my_items[i]) = UniqueKey(my_items[j])

\* C29: the verdict, matched_count and reference price of compare_one do
\* not depend on the order of the catalog: every permutation of the
\* catalog, indexed and probed with the same row, gives the same three.
C29_CatalogOrderIndependent == pc = "compared" => OrderIndependent

\* C29 for catalogs without two listings that _unique_items takes for one
C29_OrderIndependentWithoutTwins == (pc = "compared" /\ ~Twins) => OrderIndependent

(* --- one address in two notations: the catalog holds one, the row the other --- *)

\* the street: type word short or full before the name, short or full after
\* it, or absent
StreetForms == { <<"u","l"," ","l","e","n">>, <<"u","l","i","c","a"," ","l","e","n">>, <<"l","e","n"," ","u","l",".">>, <<"l","e","n"," ","u","l","i","c","a">>, <<"l","e","n">> }

\* house 8, alone or in corpus 1 (building 1), compact and verbose
HouseBases == { <<"8">>, <<"8","k","1">>, <<"8"," ","k","o","r","p","u","s"," ","1">>, <<"8","k","1","s","1">>, <<"8"," ","k","o","r","p","u","s"," ","1"," ","s","t","r"," ","1">> }

\* nothing, "pom N" or a room number after the house
Trails == { <<>>, <<" ","p","o","m"," ","5">>, <<" ","3","9">> }

\* the house with a detached or hyphenated letter
HouseLetters == { <<"8"," ","b">>, <<"8","-","a">> }

\* ranges that hold house 8, the last written larger number first
HouseRanges == { <<"7","-","9">>, <<"8","-","1","0">>, <<"7","-","9","k","1">>, <<"9","-","7">> }

CatalogHouses == {h \o tr : h \in HouseBases, tr \in Trails} \cup HouseLetters
RowHouses == CatalogHouses \cup HouseRanges

VariantListings ==
    {Listing(st \o <<",", " ">> \o h, Some(100), SALE, Some(50), "u1") :
        st \in StreetForms, h \in CatalogHouses}

VariantRows ==
    {Row(Some(st \o <<",", " ">> \o h), Some(100), Some(SALE), Some(50)) :
        st \in StreetForms, h \in RowHouses}

InitVariants ==
    /\ pc = "load"
    /\ \E it \in VariantListings : my_items = <<it>>
    /\ my_index = <<>>
    /\ comp_row = Nil
    /\ comp_comp = Nil
    /\ out = Nil
    /\ NormIdle /\ PairIdle /\ BoardIdle /\ VoteIdle

CompareVariant == Compare(VariantRows)

NextVariants == BuildIndex \/ CompareVariant

SpecVariants == InitVariants /\ [][NextVariants]_vars

\* C2: when the row and the single catalog listing name the same street and
\* house in different notations (street-type word short, full or absent,
\* before or after the name; compact or verbose corpus/building; a trailing
\* "pom N", room number or house letter; a range holding the house; corpus or
\* building on one side only), compare_one returns Matched, AreaMismatch or
\* DealTypeMismatch, never NotFound nor PartMismatch.
C2_VariantsAreFound ==
    pc = "compared" => out.result \in {MATCHED, AREA_MISMATCH, DEAL_TYPE_MISMATCH}

\* C2 for the rows whose range, if any, is written smaller number first
C2_AscendingVariantsAreFound ==
    (pc = "compared" /\ RangeOrdered(Query))
        => out.result \in {MATCHED, AREA_MISMATCH, DEAL_TYPE_MISMATCH}

(* --- one house, corpus and building in two notations, parsed --- *)

\* corpus and building numbers run from 1 to MaxPart
MaxPart == 2
PartNumbers == 1..MaxPart

\* house h, corpus c, building s with the marker glued to the digits on both
\* sides (the building marker short or long), or spelled out
BothCompact(h, c, s) ==
    { Str(h) \o <<"k">> \o Str(c) \o <<"s">> \o Str(s),
      Str(h) \o <<"k">> \o Str(c) \o <<" ","s","t","r"," ">> \o Str(s) }
BothGluedStr(h, c, s) == { Str(h) \o <<"k">> \o Str(c) \o <<"s","t","r">> \o Str(s) }
BothVerbose(h, c, s) ==
    { Str(h) \o <<" ","k","o","r","p","u","s"," ">> \o Str(c) \o <<" ","s","t","r"," ">> \o Str(s),
      Str(h) \o <<" ","k","o","r","p","u","s"," ">> \o Str(c) \o <<" ","s","t","r","o","e","n","i","e"," ">> \o Str(s) }
CorpCompact(h, c) == { Str(h) \o <<"k">> \o Str(c) }
CorpVerbose(h, c) ==
    { Str(h) \o <<" ","k","o","r","p","u","s"," ">> \o Str(c), Str(h) \o <<" ","k","o","r","p"," ">> \o Str(c) }
StrCompact(h, s) == { Str(h) \o <<"s">> \o Str(s) }
StrGluedStr(h, s) == { Str(h) \o <<"s","t","r">> \o Str(s) }
StrVerbose(h, s) ==
    { Str(h) \o <<" ","s","t","r"," ">> \o Str(s), Str(h) \o <<" ","s","t","r","o","e","n","i","e"," ">> \o Str(s) }

\* the groups of notations of one house: all members of a group write the
\* same h, c, s
NotationGroups ==
    {BothCompact(h, c, s) \cup BothGluedStr(h, c, s) \cup BothVerbose(h, c, s) :
        h \in HouseNumbers, c \in PartNumbers, s \in PartNumbers}
    \cup {CorpCompact(h, c) \cup CorpVerbose(h, c) :
        h \in HouseNumbers, c \in PartNumbers}
    \cup {StrCompact(h, s) \cup StrGluedStr(h, s) \cup StrVerbose(h, s) :
        h \in HouseNumbers, s \in PartNumbers}

\* the notations that glue the long building marker to the digits
GluedStr ==
    UNION {BothGluedStr(h, c, s) : h \in HouseNumbers, c \in PartNumbers, s \in PartNumbers}
    \cup UNION {StrGluedStr(h, s) : h \in HouseNumbers, s \in PartNumbers}

\* the street before the house, with and without a comma
HousePrefixes == { <<"u","l"," ","l","e","n",","," ">>, <<"u","l"," ","l","e","n"," ">> }

InitHouse ==
    /\ pc = "addresses"
    /\ \E g \in NotationGroups, pre \in HousePrefixes : \E a \in g, b \in g :
          /\ addr_a = pre \o a
          /\ addr_b = pre \o b
    /\ parsed_a = Nil /\ parsed_b = Nil /\ ovl = Nil /\ rel = Nil
    /\ NormIdle /\ MatchIdle /\ BoardIdle /\ VoteIdle

NextHouse == Extract

SpecHouse == InitHouse /\ [][NextHouse]_vars

\* the house fields of parsed components
HouseFields(p) == <<p.house_from, p.house_to, p.corp, p.str>>

\* the address ends with one of the notations hs
EndsWith(addr, hs) ==
    \E n \in hs : Len(n) <= Len(addr)
                  /\ SubSeq(addr, Len(addr) - Len(n) + 1, Len(addr)) = n

\* C11: compact and verbose notations of one house parse to the same
\* house_from, house_to, corp and str, for every house h, corpus c and
\* building s, also when only the corpus or only the building is given.
C11_SameHouseFields ==
    pc = "parsed" => HouseFields(parsed_a) = HouseFields(parsed_b)

\* C11 without the notations that glue the long building marker to the digits
C11_SameHouseFieldsSplit ==
    (pc = "parsed" /\ ~EndsWith(addr_a, GluedStr) /\ ~EndsWith(addr_b, GluedStr))
        => HouseFields(parsed_a) = HouseFields(parsed_b)

(* --- the house block among several numbers, with and without commas --- *)

\* the pieces an address is put together from: a street, house blocks, a
\* house followed by a room number, a word without a number
BlockPieces ==
    { <<"u","l"," ","l","e","n">>, <<"1","6">>, <<"3","9","a">>, <<"1","6"," ","3","9">>, <<"1","6","k","1"," ","3","9">>, <<"p","o","m">> }
BlockSeparators == { <<","," ">>, <<" ">> }
BlockEnds == { <<>>, <<",">> }

\* two or three pieces, the last one possibly followed by a comma
BlockAddresses ==
    {p1 \o s1 \o p2 \o e :
        p1 \in BlockPieces, s1 \in BlockSeparators, p2 \in BlockPieces, e \in BlockEnds}
    \cup {p1 \o s1 \o p2 \o s2 \o p3 :
        p1 \in BlockPieces, s1 \in BlockSeparators, p2 \in BlockPieces,
        s2 \in BlockSeparators, p3 \in BlockPieces}

InitBlock ==
    /\ pc = "addresses"
    /\ addr_a \in BlockAddresses
    /\ addr_b = addr_a
    /\ parsed_a = Nil /\ parsed_b = Nil /\ ovl = Nil /\ rel = Nil
    /\ NormIdle /\ MatchIdle /\ BoardIdle /\ VoteIdle

NextBlock == Extract

SpecBlock == InitBlock /\ [][NextBlock]_vars

\* the house fields of a match of the house pattern
BlockFields(hm) ==
    <<Some(HouseData(hm).house_from), Some(HouseData(hm).house_to),
      HouseData(hm).house_letter, HouseData(hm).corp, HouseData(hm).str>>
ParsedFields(p) == <<p.house_from, p.house_to, p.house_letter, p.corp, p.str>>

\* the non-empty comma segments of the normalized address, and the matches
\* of the house pattern in the last one and in the whole string
Segments(p) == Parts(p.norm)
LastSegmentMatches(p) == HouseMatches(Segments(p)[Len(Segments(p))])
WholeMatches(p) == HouseMatches(p.norm)
HouseInLastSegment(p) == Len(Segments(p)) >= 2 /\ LastSegmentMatches(p) # <<>>

\* C12: with two or more comma segments and a house block in the last one,
\* the house descriptor is the FIRST match of the last segment; with no
\* comma, or no house block in the last segment, it is the LAST match of the
\* whole normalized string (none when there is no match at all).
C12_FirstInLastElseLastOfAll ==
    pc = "parsed" =>
        IF HouseInLastSegment(parsed_a)
        THEN ParsedFields(parsed_a) = BlockFields(LastSegmentMatches(parsed_a)[1])
        ELSE IF WholeMatches(parsed_a) # <<>>
        THEN ParsedFields(parsed_a)
                = BlockFields(WholeMatches(parsed_a)[Len(WholeMatches(parsed_a))])
        ELSE ParsedFields(parsed_a) = <<Nil, Nil, <<>>, Nil, Nil>>

\* a house followed by a room number after the comma: the house is kept
C12_TrailingRoomKeepsHouse ==
    /\ pc = "parsed"
    /\ HouseInLastSegment(parsed_a)
    /\ Len(LastSegmentMatches(parsed_a)) >= 2
    /\ parsed_a.house_from = Some(16)
    /\ HouseData(LastSegmentMatches(parsed_a)[Len(LastSegmentMatches(parsed_a))]).house_from = 39

---------------------------------------------------------------------------
(* build_union_board.py: the union of the competitors' listings *)

UNION_AREA_TOL == 3
SOFT_AREA_TOL == 15
\* 10**12 in the source; the largest number TLC holds, above every
\* position of a listing
NO_POSITION == 2147483647

Competitors == {"knru", "nordwest", "rest2rent"}

\* f"{hf}-{ht or hf}"
HouseKey(hf, ht) == Str(hf) \o <<"-">> \o Str(IF ht # 0 THEN ht ELSE hf)

\* comp.get("street_key_bag") or comp.get("street_key") or ""
StreetOfKey(comp) == IF comp.street_key_bag # <<>> THEN comp.street_key_bag ELSE comp.street_key

\* (comp.get(field) or "").strip().lower()
PartOfKey(v) == IF IsNil(v) THEN <<>> ELSE Lower(Strip(Val(v)))

\* lines 118-127: f"{street}|{house}|{corp}|{stro}"
KeyOfComponents(comp) ==
    StreetOfKey(comp) \o <<"|">>
    \o (IF IsNil(comp.house_from) THEN <<>>
        ELSE HouseKey(Val(comp.house_from), Val(comp.house_to)))
    \o <<"|">> \o PartOfKey(comp.corp) \o <<"|">> \o PartOfKey(comp.str)

BuildKeyFrom(address, comp) ==
    IF ~IsNil(comp) /\ StreetOfKey(Val(comp)) # <<>> THEN KeyOfComponents(Val(comp))
    ELSE <<"f","a","l","l","b","a","c","k","|">> \o norm_text(address)

build_address_key(address) == BuildKeyFrom(address, extract_components(Some(address)))

\* (norm_value or "").strip().lower() is empty or starts with "не определ"
is_unknown_district(norm_value) ==
    LET s == Lower(Strip(norm_value))
    IN  s = <<>> \/ (Len(s) >= 10 /\ SubSeq(s, 1, 10) = <<"n","e"," ","o","p","r","e","d","e","l">>)

\* the known districts of the listings an object keeps
KnownDistricts(obj) ==
    {Val(obj.listings[c]).district_norm :
        c \in {x \in Competitors : ~IsNil(obj.listings[x])
                                   /\ ~is_unknown_district(Val(obj.listings[x]).district_norm)}}

\* lines 550-556 without the first test: an unknown district of the listing
\* is not compatible with known ones
district_strict(obj, lst) ==
    \/ KnownDistricts(obj) = {}
    \/ lst.district_norm \in KnownDistricts(obj)

\* lines 550-556
district_compatible(obj, lst) ==
    \/ is_unknown_district(lst.district_norm)
    \/ KnownDistricts(obj) = {}
    \/ lst.district_norm \in KnownDistricts(obj)

\* lines 561-569: the index of the best object among pool[i..], given the
\* best so far (0 for none)
RECURSIVE BestFrom(_, _, _, _, _)
BestFrom(pool, lst, i, best, best_diff) ==
    IF i > Len(pool) THEN best
    ELSE IF ~district_compatible(pool[i], lst) THEN BestFrom(pool, lst, i + 1, best, best_diff)
    ELSE IF IsNil(lst.area_m2) \/ IsNil(pool[i].area_ref)
         THEN BestFrom(pool, lst, i + 1, best, best_diff)
    ELSE IF Abs(Val(lst.area_m2) - Val(pool[i].area_ref)) <= UNION_AREA_TOL
            /\ Abs(Val(lst.area_m2) - Val(pool[i].area_ref)) < best_diff
         THEN BestFrom(pool, lst, i + 1, i, Abs(Val(lst.area_m2) - Val(pool[i].area_ref)))
    ELSE BestFrom(pool, lst, i + 1, best, best_diff)

\* lines 574-582
SoftMatch(pool, lst) ==
    /\ Len(pool) = 1
    /\ district_compatible(pool[1], lst)
    /\ ~IsNil(lst.area_m2) /\ ~IsNil(pool[1].area_ref)
    /\ Abs(Val(lst.area_m2) - Val(pool[1].area_ref)) <= SOFT_AREA_TOL

\* lines 585-586 without the test of the districts
SingleWithoutAreaAnyDistrict(pool, lst) ==
    IsNil(lst.area_m2) /\ Len(pool) = 1

\* lines 585-586
SingleWithoutArea(pool, lst) ==
    IsNil(lst.area_m2) /\ Len(pool) = 1 /\ district_compatible(pool[1], lst)

\* the steps after the search by area
MatchAfterBest(pool, lst, best) ==
    IF best # 0 THEN best
    ELSE IF SoftMatch(pool, lst) THEN 1
    ELSE IF SingleWithoutArea(pool, lst) THEN 1
    ELSE 0

\* the index in pool of the object for lst, 0 for None
find_matching_object(pool, lst) ==
    IF pool = <<>> THEN 0
    ELSE MatchAfterBest(pool, lst, BestFrom(pool, lst, 1, 0, FAR))

\* position_global if not None else 10**12
PositionOf(lst) == IF IsNil(lst.position_global) THEN NO_POSITION ELSE Val(lst.position_global)

\* lines 69-76 with the comparison turned round: the later listing wins a tie
KeptListingLater(cur, lst) ==
    IF IsNil(cur) THEN Some(lst)
    ELSE IF PositionOf(lst) <= PositionOf(Val(cur)) THEN Some(lst) ELSE cur

\* lines 69-76: what listings[lst.competitor] is after add_listing
KeptListing(cur, lst) ==
    IF IsNil(cur) THEN Some(lst)
    ELSE IF PositionOf(lst) < PositionOf(Val(cur)) THEN Some(lst) ELSE cur

\* UnionObject.add_listing with area_ref set once: the first area seen stays
add_listing_first_area(obj, lst) ==
    [address_key |-> obj.address_key,
     listings |-> [obj.listings EXCEPT ![lst.competitor] = KeptListing(@, lst)],
     area_values |-> IF IsNil(lst.area_m2) THEN obj.area_values
                     ELSE Append(obj.area_values, Val(lst.area_m2)),
     area_ref |-> IF IsNil(lst.area_m2) \/ ~IsNil(obj.area_ref) THEN obj.area_ref
                  ELSE lst.area_m2]

\* UnionObject.add_listing
add_listing(obj, lst) ==
    [address_key |-> obj.address_key,
     listings |-> [obj.listings EXCEPT ![lst.competitor] = KeptListing(@, lst)],
     area_values |-> IF IsNil(lst.area_m2) THEN obj.area_values
                     ELSE Append(obj.area_values, Val(lst.area_m2)),
     area_ref |-> IF IsNil(lst.area_m2) THEN obj.area_ref ELSE lst.area_m2]

\* UnionObject(address_key=key, area_ref=lst.area_m2 if it is a number else None)
UnionObject(key, area_ref) ==
    [address_key |-> key, area_ref |-> area_ref,
     listings |-> [c \in Competitors |-> Nil], area_values |-> <<>>]

\* lines 601-605: the pool after lst went to pool[obj], a new object when obj = 0
PoolAfter(pool, lst, obj) ==
    IF obj = 0
    THEN Append(pool, add_listing(UnionObject(lst.address_key, lst.area_m2), lst))
    ELSE [pool EXCEPT ![obj] = add_listing(@, lst)]

\* groups[key], [] when the key is new
PoolOf(g, key) == IF key \in DOMAIN g THEN g[key] ELSE <<>>

\* one turn of the loop of build_union_objects
UnionStep(g, lst, obj) ==
    [k \in DOMAIN g \cup {lst.address_key} |->
        IF k = lst.address_key THEN PoolAfter(PoolOf(g, k), lst, obj) ELSE g[k]]

---------------------------------------------------------------------------
(* swipe_app.py: UnifiedObject *)

\* lines 146-148: what by_source[listing.source] is after add
BySource(cur, listing) ==
    IF IsNil(cur) \/ listing.position_global < Val(cur).position_global
    THEN Some(listing) ELSE cur

\* UnifiedObject(object_id=...)
UnifiedObject(object_id) ==
    [object_id |-> object_id, listings |-> <<>>,
     by_source |-> [c \in Competitors |-> Nil],
     ref_comp |-> Nil, street_bag |-> <<>>, fallback_key |-> <<>>,
     area_values |-> <<>>]

\* UnifiedObject.add
add(obj, listing) ==
    [object_id |-> obj.object_id,
     listings |-> Append(obj.listings, listing),
     by_source |-> [obj.by_source EXCEPT ![listing.source] = BySource(@, listing)],
     area_values |-> IF IsNil(listing.area_m2) THEN obj.area_values
                     ELSE Append(obj.area_values, Val(listing.area_m2)),
     ref_comp |-> IF IsNil(obj.ref_comp) /\ ~IsNil(listing.comp)
                  THEN listing.comp ELSE obj.ref_comp,
     street_bag |-> IF obj.street_bag = <<>> /\ listing.street_bag # <<>>
                    THEN listing.street_bag ELSE obj.street_bag,
     fallback_key |-> IF obj.fallback_key = <<>> /\ listing.fallback_key # <<>>
                      THEN listing.fallback_key ELSE obj.fallback_key]

---------------------------------------------------------------------------
(* the union run and the swipe run *)

\* at most MaxListings listings are processed in a run
MaxListings == 4

\* a row of a competitor's file, as read_competitor_csv keeps it
UnionListing(competitor, address, area_m2, position_global, district_norm, link) ==
    [competitor |-> competitor, address |-> address, area_m2 |-> area_m2,
     position_global |-> position_global, district_norm |-> district_norm,
     competitor_link |-> link, address_key |-> build_address_key(address)]

\* one house in two notations and its neighbour; areas that are equal, 3,
\* 10 and 20 apart, and missing; positions 1, 2 and missing; two districts,
\* and the district unknown in both spellings
UnionListings ==
    { UnionListing("knru",      <<"u","l"," ","l","e","n",","," ","7">>,     Some(100), Some(1), <<"c","e","n","t","r">>, "a1"),
      UnionListing("nordwest",  <<"l","e","n"," ","u","l","i","c","a",","," ","7">>,  Some(103), Some(2), <<>>, "b1"),
      UnionListing("rest2rent", <<"u","l"," ","l","e","n",","," ","7">>,     Some(100), Nil,     <<"c","e","n","t","r">>, "c1"),
      UnionListing("knru",      <<"u","l"," ","l","e","n",","," ","7">>,     Some(120), Some(1), <<"c","e","n","t","r">>, "a2"),
      UnionListing("nordwest",  <<"u","l"," ","l","e","n",","," ","7">>,     Some(110), Some(1), <<"c","e","n","t","r">>, "b2"),
      UnionListing("rest2rent", <<"u","l"," ","l","e","n",","," ","7">>,     Nil,       Some(2), <<"c","e","n","t","r">>, "c2"),
      UnionListing("knru",      <<"u","l"," ","l","e","n",","," ","7">>,     Some(103), Some(2), <<"n","e","v","s","k">>, "a3"),
      UnionListing("knru",      <<"u","l"," ","l","e","n",","," ","7">>,     Some(100), Nil,     <<"n","e"," ","o","p","r","e","d","e","l","e","n">>, "a4"),
      UnionListing("knru",      <<"u","l"," ","l","e","n",","," ","7">>,     Some(101), Some(1), <<"c","e","n","t","r">>, "a5"),
      UnionListing("nordwest",  <<"u","l"," ","l","e","n",","," ","8">>,     Some(100), Some(1), <<"c","e","n","t","r">>, "b3") }

\* a listing of the swipe application
SwipeListing(source, position_global, area_m2, street_bag, url) ==
    [source |-> source, position_global |-> position_global, area_m2 |-> area_m2,
     comp |-> IF street_bag = <<>> THEN Nil ELSE Some(street_bag),
     street_bag |-> street_bag, fallback_key |-> <<"u","l"," ","l","e","n",","," ","7">>,
     listing_url |-> url]

SwipeListings ==
    { SwipeListing("knru",      1, Some(100), <<"l","e","n">>, "a1"),
      SwipeListing("knru",      1, Some(101), <<"l","e","n">>, "a2"),
      SwipeListing("knru",      2, Nil,       <<>>,   "a3"),
      SwipeListing("nordwest",  2, Some(100), <<"l","e","n">>, "b1"),
      SwipeListing("nordwest",  1, Some(102), <<>>,   "b2"),
      SwipeListing("rest2rent", 3, Some(100), <<"l","e","n">>, "c1") }

InitUnion ==
    /\ pc \in {"union", "swipe"}
    /\ groups = <<>>
    /\ u_trace = <<>>
    /\ s_obj = UnifiedObject("obj_1")
    /\ final_result = Nil
    /\ NormIdle /\ PairIdle /\ MatchIdle /\ VoteIdle

\* one turn of the loop of build_union_objects, for the next listing lst
AttachTo(lst, pool, obj) ==
    /\ groups' = UnionStep(groups, lst, obj)
    /\ u_trace' = Append(u_trace, [lst |-> lst, pool |-> pool, obj |-> obj])

AttachListing ==
    /\ pc = "union"
    /\ Len(u_trace) < MaxListings
    /\ \E lst \in UnionListings :
          AttachTo(lst, PoolOf(groups, lst.address_key),
                   find_matching_object(PoolOf(groups, lst.address_key), lst))
    /\ UNCHANGED <<pc, s_obj, final_result, normVars, pairVars, matchVars, voteVars>>

\* obj.add(listing)
Add ==
    /\ pc = "swipe"
    /\ Len(s_obj.listings) < MaxListings
    /\ \E listing \in SwipeListings : s_obj' = add(s_obj, listing)
    /\ UNCHANGED <<pc, groups, u_trace, final_result, normVars, pairVars, matchVars, voteVars>>

NextUnion == AttachListing \/ Add

SpecUnion == InitUnion /\ [][NextUnion]_vars

\* the listing processed last, the pool it met, the object it was given
Last == u_trace[Len(u_trace)]
LastObject == Last.pool[Last.obj]
AreaDistance(lst, obj) ==
    IF IsNil(lst.area_m2) \/ IsNil(obj.area_ref) THEN FAR
    ELSE Abs(Val(lst.area_m2) - Val(obj.area_ref))

\* C13: a listing with an area is attached to an existing cluster of its
\* pool only if its area is within 3 of the cluster's area_ref and the
\* cluster's known districts are empty or hold the listing's district (or
\* the listing's district is unknown); otherwise it gets a new cluster.
C13_AttachOnlyWithinTol ==
    (u_trace # <<>> /\ ~IsNil(Last.lst.area_m2) /\ Last.obj # 0)
        => /\ AreaDistance(Last.lst, LastObject) <= UNION_AREA_TOL
           /\ district_compatible(LastObject, Last.lst)

\* C13 with the soft match of a pool of one object let in
C13_AttachWithinTolOrSoft ==
    (u_trace # <<>> /\ ~IsNil(Last.lst.area_m2) /\ Last.obj # 0)
        => /\ \/ AreaDistance(Last.lst, LastObject) <= UNION_AREA_TOL
              \/ Len(Last.pool) = 1 /\ AreaDistance(Last.lst, LastObject) <= SOFT_AREA_TOL
           /\ district_compatible(LastObject, Last.lst)

\* the first three listings processed: three sources, one address key,
\* districts equal or unknown, areas within 3 of one another
DistrictsAgree(x, y) ==
    \/ is_unknown_district(x.district_norm)
    \/ is_unknown_district(y.district_norm)
    \/ x.district_norm = y.district_norm
Trio ==
    /\ Len(u_trace) >= 3
    /\ \A i, j \in 1..3 :
          /\ u_trace[i].lst.address_key = u_trace[j].lst.address_key
          /\ i # j => u_trace[i].lst.competitor # u_trace[j].lst.competitor
          /\ DistrictsAgree(u_trace[i].lst, u_trace[j].lst)
          /\ ~IsNil(u_trace[i].lst.area_m2)
          /\ Abs(Val(u_trace[i].lst.area_m2) - Val(u_trace[j].lst.area_m2)) <= UNION_AREA_TOL

\* the fourth listing has the trio's address key and an area 20 off the
\* area of one of the three
FourthFarOff ==
    /\ Len(u_trace) >= 4
    /\ u_trace[4].lst.address_key = u_trace[1].lst.address_key
    /\ ~IsNil(u_trace[4].lst.area_m2)
    /\ \E i \in 1..3 : Abs(Val(u_trace[4].lst.area_m2) - Val(u_trace[i].lst.area_m2)) = 20

Sources(obj) == {c \in Competitors : ~IsNil(obj.listings[c])}
TrioPool == groups[u_trace[1].lst.address_key]

\* C14: three listings of three sources with one address key, compatible
\* districts and areas within 3 of one another are one cluster of three
\* sources, in whatever order they come; a further listing of that key with
\* an area 20 off goes to a second, new cluster.
C14_TrioOneClusterFarOffSecond ==
    /\ (Len(u_trace) = 3 /\ Trio)
          => Len(TrioPool) = 1 /\ Cardinality(Sources(TrioPool[1])) = 3
    /\ (Trio /\ FourthFarOff)
          => /\ Len(u_trace[4].pool) = 1
             /\ Cardinality(Sources(u_trace[4].pool[1])) = 3
             /\ u_trace[4].obj = 0
             /\ Len(u_trace) = 4
                   => /\ Len(TrioPool) = 2
                      /\ TrioPool[1] = u_trace[4].pool[1]
                      /\ Sources(TrioPool[2]) = {u_trace[4].lst.competitor}

\* the trio came with the listing of the unknown district second, and the
\* far-off listing made the second cluster
C14_TrioThenFarOff ==
    /\ Len(u_trace) = 4 /\ Trio /\ FourthFarOff
    /\ is_unknown_district(u_trace[2].lst.district_norm)
    /\ Len(TrioPool) = 2

\* the index in its pool of the object the i-th listing went to
Target(i) == IF u_trace[i].obj = 0 THEN Len(u_trace[i].pool) + 1 ELSE u_trace[i].obj

\* the turns at which a listing of competitor c went to object j of pool key
Attached(key, j, c) ==
    {i \in 1..Len(u_trace) : /\ u_trace[i].lst.address_key = key
                             /\ Target(i) = j
                             /\ u_trace[i].lst.competitor = c}

\* the earliest turn of T with the lowest position (a missing one is worst)
BestTurn(T) ==
    CHOOSE i \in T : \A k \in T :
        \/ PositionOf(u_trace[i].lst) < PositionOf(u_trace[k].lst)
        \/ PositionOf(u_trace[i].lst) = PositionOf(u_trace[k].lst) /\ i <= k

\* the same for the listings a UnifiedObject has been given
Added(c) == {i \in 1..Len(s_obj.listings) : s_obj.listings[i].source = c}
BestAdded(T) ==
    CHOOSE i \in T : \A k \in T :
        \/ s_obj.listings[i].position_global < s_obj.listings[k].position_global
        \/ s_obj.listings[i].position_global = s_obj.listings[k].position_global /\ i <= k

\* C15: a cluster keeps one listing per source: among all listings of the
\* source ever attached to it, the one of the lowest position (a missing
\* position is the worst), the earlier one when positions are equal; for
\* UnionObject.add_listing and for UnifiedObject.add.
C15_KeepsBestPerSource ==
    /\ \A key \in DOMAIN groups : \A j \in 1..Len(groups[key]) : \A c \in Competitors :
          groups[key][j].listings[c] =
              IF Attached(key, j, c) = {} THEN Nil
              ELSE Some(u_trace[BestTurn(Attached(key, j, c))].lst)
    /\ \A c \in Competitors :
          s_obj.by_source[c] =
              IF Added(c) = {} THEN Nil ELSE Some(s_obj.listings[BestAdded(Added(c))])

\* a cluster got a listing without a position, then one of the same source
\* with a position, then one more with that same position: the second is kept
C15_MissingThenTie ==
    \E key \in DOMAIN groups : \E j \in 1..Len(groups[key]) : \E c \in Competitors :
        \E i1, i2, i3 \in Attached(key, j, c) :
            /\ i1 < i2 /\ i2 < i3
            /\ IsNil(u_trace[i1].lst.position_global)
            /\ u_trace[i2].lst.position_global = u_trace[i3].lst.position_global
            /\ u_trace[i2].lst # u_trace[i3].lst
            /\ groups[key][j].listings[c] = Some(u_trace[i2].lst)

---------------------------------------------------------------------------
(* build_action_board.py: the final report made from the rows of compare_report *)

(* --- listings without an area, and the area_ref of a cluster --- *)

\* the listing processed last has no area and met a pool of one cluster
LoneClusterNoArea ==
    u_trace # <<>> /\ IsNil(Last.lst.area_m2) /\ Len(Last.pool) = 1

LastCluster == groups[Last.lst.address_key][Target(Len(u_trace))]
\* the turns at which a listing went to that cluster, and those with an area
TurnsOfLastCluster ==
    {i \in 1..Len(u_trace) : /\ u_trace[i].lst.address_key = Last.lst.address_key
                             /\ Target(i) = Target(Len(u_trace))}
TurnsWithArea == {i \in TurnsOfLastCluster : ~IsNil(u_trace[i].lst.area_m2)}
LatestOf(T) == CHOOSE i \in T : \A k \in T : k <= i

\* C25 as stated: after every attachment the cluster's area_ref is the area
\* of the listing attached most recently.
C25_AreaRefIsLatestArea ==
    u_trace # <<>> => LastCluster.area_ref = Last.lst.area_m2

\* C25: after every attachment the cluster's area_ref is the area of the
\* most recently attached listing that carries an area (none while no such
\* listing was attached), kept as its source's representative or not; a
\* listing without an area leaves area_ref as it was.
C25_AreaRefIsLatestKnownArea ==
    u_trace # <<>> =>
        LastCluster.area_ref =
            IF TurnsWithArea = {} THEN Nil
            ELSE u_trace[LatestOf(TurnsWithArea)].lst.area_m2

\* a listing that lost its source's place to an earlier one of the same
\* position still moved area_ref to its own area
C25_NotKeptMovesAreaRef ==
    /\ u_trace # <<>>
    /\ Last.obj # 0
    /\ LastCluster.listings[Last.lst.competitor] # Some(Last.lst)
    /\ ~IsNil(Last.lst.area_m2)
    /\ LastCluster.area_ref = Last.lst.area_m2
    /\ LastObject.area_ref # Last.lst.area_m2

AREA_TOL_M2 == 3

\* the results build_final_result adds to those of compare_one
CHEAPER == "U nas deshevle"
DEARER == "U nas dorozhe"
PRICE_EQUAL == "Cena ravna"
MATCHED_3M2 == "Sovpalo (+-3 m2)"

\* a cell of a number column as build_final_result gets it: None, NaN (a
\* missing number in a column that holds numbers too) or a number
NONE == <<>>
NAN == <<"nan">>
Number(n) == <<"num", n>>
IsNone(x) == Len(x) = 0
IsNumber(x) == Len(x) = 2
NumberOf(x) == x[2]
Cell(v, nan) == IF IsNil(v) THEN (IF nan THEN NAN ELSE NONE) ELSE Number(Val(v))

\* parse_area_from_reason: the first area written in the reason, which lists
\* the listings shown, each with its area when it has one
RECURSIVE FirstArea(_)
FirstArea(shown) ==
    IF shown = <<>> THEN Nil
    ELSE IF ~IsNil(Head(shown).area_m2) THEN Head(shown).area_m2
    ELSE FirstArea(Tail(shown))
parse_area_from_reason(res) == FirstArea(res.shown)

\* lines 231-233
area_match_3m2(result, comp_area_num, our_area_num) ==
    /\ result # NOT_FOUND
    /\ ~IsNil(comp_area_num) /\ ~IsNil(our_area_num)
    /\ Abs(Val(comp_area_num) - Val(our_area_num)) <= AREA_TOL_M2

\* lines 184-189: a comparison with NaN is false
PriceCompared(comp_price, our_price) ==
    IF IsNumber(our_price) /\ NumberOf(our_price) < NumberOf(comp_price) THEN CHEAPER
    ELSE IF IsNumber(our_price) /\ NumberOf(our_price) > NumberOf(comp_price) THEN DEARER
    ELSE PRICE_EQUAL

build_final_result(base_result, area_match, comp_price, our_price) ==
    IF base_result = NOT_FOUND THEN NOT_FOUND
    ELSE IF /\ area_match /\ ~IsNone(comp_price) /\ ~IsNone(our_price)
            /\ IsNumber(comp_price) /\ NumberOf(comp_price) > 0
    THEN PriceCompared(comp_price, our_price)
    ELSE IF area_match THEN MATCHED_3M2
    ELSE IF base_result \in {MATCHED, MATCHED_3M2, DEAL_TYPE_MISMATCH} THEN AREA_MISMATCH
    ELSE base_result

\* lines 225-243 for the row compare_one was given and the result it returned
FinalOf(row, res, nan) ==
    build_final_result(res.result,
                       area_match_3m2(res.result, row.area_m2, parse_area_from_reason(res)),
                       Cell(row.price_rub, nan),
                       Cell(res.our_best_price_rub, nan))

BuildFinal ==
    /\ pc = "compared"
    /\ \E nan \in BOOLEAN : final_result' = Some(FinalOf(comp_row, out, nan))
    /\ pc' = "reported"
    /\ UNCHANGED <<groups, u_trace, s_obj, normVars, pairVars, matchVars, voteVars>>

NextBoard == AddItem \/ BuildIndex \/ CompareOne \/ BuildFinal

SpecBoard == Init /\ [][NextBoard]_vars

\* C17: build_final_result keeps a row in the category compare_one gave it:
\* a PartMismatch, AreaMismatch or NotFound row is never reported as matched
\* or price-compared, and a Matched or DealTypeMismatch row is never
\* reported as AreaMismatch.
C17_FinalKeepsCategory ==
    pc = "reported" =>
        /\ out.result \in {PART_MISMATCH, AREA_MISMATCH, NOT_FOUND}
              => Val(final_result) \notin {MATCHED_3M2, CHEAPER, DEARER, PRICE_EQUAL}
        /\ out.result \in {MATCHED, DEAL_TYPE_MISMATCH}
              => Val(final_result) # AREA_MISMATCH

\* the part of C17 that holds: NotFound stays NotFound, an AreaMismatch row is
\* never reported as matched or price-compared
C17_NotFoundAndAreaMismatchKept ==
    pc = "reported" =>
        /\ out.result = NOT_FOUND => final_result = Some(NOT_FOUND)
        /\ out.result = AREA_MISMATCH => final_result = Some(AREA_MISMATCH)

\* the two ways out of the category, each alone
C17_PartMismatchNotMatched ==
    (pc = "reported" /\ out.result = PART_MISMATCH)
        => Val(final_result) \notin {MATCHED_3M2, CHEAPER, DEARER, PRICE_EQUAL}
C17_MatchedNotAreaMismatch ==
    (pc = "reported" /\ out.result \in {MATCHED, DEAL_TYPE_MISMATCH})
        => Val(final_result) # AREA_MISMATCH

---------------------------------------------------------------------------
(* --- what follows the house in the last comma segment --- *)

\* addresses of a street and a house, the house in the last comma segment
TailBases ==
    { <<"u","l"," ","l","e","n",","," ","7">>, <<"2","-","q"," ","s","o","v"," ","u","l",".",","," ","1","0">>, <<"l","e","n",","," ","1","6","k","1">>, <<"n","a","b"," ","m","o","i",","," ","6">>,
      <<"l","e","n"," ","u","l",","," ","d"," ","7">>, <<"m","o","s",","," ","l","e","n"," ","p","r",","," ","1","2">>, <<"l","e","n",","," ","7","a">>, <<"u","l"," ","8"," ","m","a","r",","," ","1","0">> }
\* a detached house letter, a room number with and without its marker
LetterTails == { <<" ","b">>, <<"-","a">>, <<"/","b">> }
RoomTails == { <<" ","5">>, <<" ","p","o","m"," ","5">>, <<" ","p","o","m",".","5">>, <<" ","o","f"," ","3">> }
GluedTails == { <<" ","p","o","m","5">>, <<" ","o","f","3">> }
Tails == LetterTails \cup RoomTails \cup GluedTails

InitTail ==
    /\ pc = "addresses"
    /\ addr_a \in TailBases
    /\ \E t \in Tails : addr_b = addr_a \o t
    /\ parsed_a = Nil /\ parsed_b = Nil /\ ovl = Nil /\ rel = Nil
    /\ NormIdle /\ MatchIdle /\ BoardIdle /\ VoteIdle

NextTail == Extract

SpecTail == InitTail /\ [][NextTail]_vars

\* the tail addr_b carries after addr_a
TailOf == SubSeq(addr_b, Len(addr_a) + 1, Len(addr_b))
\* the last comma segment of the normalized address without its house block
StrippedLast(p) ==
    LET last == Parts(p.norm)[Len(Parts(p.norm))]
    IN  _remove_house_from_segment(last, Val(_parse_house_from_segment(last, TRUE)).span)
\* the street keys and the first house number
StreetAndHouse(p) == <<p.street_key, p.street_key_bag, p.house_from>>

\* C22: a room number, 'pom N' or a detached house letter after the house in
\* the last comma segment leaves no real street words there, so the street
\* keys come from the previous segment: street_key, street_key_bag and
\* house_from are those of the address without the tail.
C22_TailKeepsStreetAndHouse ==
    pc = "parsed" => StreetAndHouse(parsed_b) = StreetAndHouse(parsed_a)

\* C22 for the tails whose marker stands apart from its number
C22_SpacedTailKeepsStreetAndHouse ==
    (pc = "parsed" /\ TailOf \notin GluedTails)
        => /\ ~_has_real_street_words(StrippedLast(parsed_b))
           /\ StreetAndHouse(parsed_b) = StreetAndHouse(parsed_a)

---------------------------------------------------------------------------
(* --- the street keys of one name under several notations --- *)

\* the tokens of a street name
NameTokens == { <<"l","e","n">>, <<"m","a","r">>, <<"8">> }
\* street-type words, long and abbreviated
TypeWords ==
    { <<"u","l">>, <<"u","l",".">>, <<"u","l","i","c","a">>, <<"p","r","-","k","t">>, <<"p","r","o","s","p","e","k","t">>, <<"n","a","b",".">>, <<"p","e","r","e","u","l","o","k">>, <<"w","o","s","s","e">> }
\* a descriptor and a glued technical token that may follow in the segment
ExtraWords == { <<>>, << <<"d","o","m">> >>, << <<"k","1">> >> }

\* the street segment made of the words, and its address with house 7
SegmentOf(words) == Join(words)
AddressOf(words) == SegmentOf(words) \o <<","," ","7">>

InitKeys ==
    /\ pc = "addresses"
    /\ \E n2 \in NameTokens, ta \in TypeWords, tb \in TypeWords, e \in ExtraWords :
       \E pa \in Orders(3), pb \in Orders(3) :
          /\ addr_a = AddressOf(Reordered(<< <<"l","e","n">>, n2, ta>>, pa) \o e)
          /\ addr_b = AddressOf(Reordered(<< <<"l","e","n">>, n2, tb>>, pb))
    /\ parsed_a = Nil /\ parsed_b = Nil /\ ovl = Nil /\ rel = Nil
    /\ NormIdle /\ MatchIdle /\ BoardIdle /\ VoteIdle

NextKeys == Extract

SpecKeys == InitKeys /\ [][NextKeys]_vars

\* the words of the street segment of an address that are name tokens
IsNameToken(t) == t \in NameTokens
NamesOf(address) ==
    Sorted(Filter(Split(SubSeq(address, 1, Len(address) - 3)), IsNameToken))

\* no token of the key is a street type, a descriptor or k<digits>/str<digits>
OnlyNameTokens(key) ==
    \A i \in DOMAIN Split(key) :
        /\ Split(key)[i] \notin STREET_TYPE_TOKENS
        /\ Split(key)[i] \notin STREET_DROP_TOKENS
        /\ ~IsTechToken(Split(key)[i])

KeysWellFormed(p) ==
    /\ p.street_key_bag = Join(Sorted(Split(p.street_key)))
    /\ (p.street_key = <<>>) <=> (p.street_key_bag = <<>>)
    /\ OnlyNameTokens(p.street_key)
    /\ OnlyNameTokens(p.street_key_bag)

\* C23: street_key_bag is the tokens of street_key sorted, one key is empty
\* exactly when the other is, neither holds a street-type token, a descriptor
\* token or a k<digits>/str<digits> token; two segments with the same name
\* tokens in any order and any street-type word have equal street_key_bag.
C23_BagIsSortedKeyWithoutTypes ==
    pc = "parsed" =>
        /\ KeysWellFormed(parsed_a)
        /\ KeysWellFormed(parsed_b)
        /\ NamesOf(addr_a) = NamesOf(addr_b)
              => parsed_a.street_key_bag = parsed_b.street_key_bag

\* the name tokens in two orders under a long and an abbreviated type word,
\* one of them with a technical token: the keys differ, the bag keys agree
C23_TwoOrdersTwoTypeWords ==
    /\ pc = "parsed"
    /\ addr_a = <<"m","a","r"," ","u","l","."," ","l","e","n"," ","k","1",","," ","7">>
    /\ addr_b = <<"p","r","o","s","p","e","k","t"," ","l","e","n"," ","m","a","r",","," ","7">>
    /\ parsed_a.street_key = <<"m","a","r"," ","l","e","n">>
    /\ parsed_b.street_key = <<"l","e","n"," ","m","a","r">>
    /\ parsed_a.street_key_bag = <<"l","e","n"," ","m","a","r">>
    /\ parsed_b.street_key_bag = <<"l","e","n"," ","m","a","r">>

---------------------------------------------------------------------------
(* swipe_app.py: the poll, votes in table respondent_vote and the cards *)

RESPONDENT_IDS == {"olya", "sasha", "dima", "test"}
VOTES == {"left", "right", "recheck", "suggest"}
RUBRIC_FILTER_KEYS ==
    {"all", "npro", "rest2rent", "duplicate_exact", "urgent_refresh", "missing",
     "fresh_knru", "fresh_nordwest", "ours_higher", "ours_lower", "inexact"}

\* clean_text(x).lower() of the respondent ids the requests carry
LowerId(x) == IF x = "OLYA" THEN "olya" ELSE x

\* self.objects in its order: the object id and the filters, other than
\* 'all', whose test the object passes
PollObjects ==
    << [object_id |-> "obj_1", filters |-> {"rest2rent"}],
       [object_id |-> "obj_2", filters |-> {}],
       [object_id |-> "obj_3", filters |-> {"rest2rent", "inexact"}] >>

\* self.object_id_to_index.get(oid): the index from 0, Nil for None
object_id_to_index(oid) ==
    IF \E i \in DOMAIN PollObjects : PollObjects[i].object_id = oid
    THEN Some((CHOOSE i \in DOMAIN PollObjects : PollObjects[i].object_id = oid) - 1)
    ELSE Nil

\* self.objects[idx], idx from 0
ObjectAt(idx) == PollObjects[idx + 1]

_normalize_filter_key(key) == IF key \in RUBRIC_FILTER_KEYS THEN key ELSE "all"

_object_matches_filter(obj, filter_key) ==
    _normalize_filter_key(filter_key) = "all"
        \/ _normalize_filter_key(filter_key) \in obj.filters

\* the indices, from 0, of the objects that pass the filter, in order
_eligible_indices(filter_key) ==
    SelectSeq([i \in DOMAIN PollObjects |-> i - 1],
              LAMBDA idx : _object_matches_filter(ObjectAt(idx), filter_key))

\* SELECT object_id FROM respondent_vote, without the WHERE: the objects
\* anyone voted on
voted_by_anyone(rows, rid) ==
    IF rid = "" THEN {} ELSE {rows[i].object_id : i \in DOMAIN rows}

\* SELECT object_id FROM respondent_vote WHERE respondent_id = ?
_voted_object_ids(rows, rid) ==
    IF rid = "" THEN {}
    ELSE {rows[i].object_id : i \in {j \in DOMAIN rows : rows[j].respondent_id = rid}}

\* the loop of lines 1593-1599: the first position from pos on whose object
\* is not voted on, -1 when the list ends first
RECURSIVE FirstPending(_, _, _, _)
FirstPending(eligible, pos, rid, voted_ids) ==
    IF pos >= Len(eligible) THEN -1
    ELSE IF rid # "" /\ ObjectAt(eligible[pos + 1]).object_id \in voted_ids
    THEN FirstPending(eligible, pos + 1, rid, voted_ids)
    ELSE pos

Done(index, total, filter_key, reason) ==
    [done |-> TRUE, index |-> index, total |-> total, filter |-> filter_key,
     reason |-> reason, object_id |-> ""]
Card(display_index, total, filter_key, obj_index) ==
    [done |-> FALSE, index |-> display_index, total |-> total, filter |-> filter_key,
     reason |-> "", object_id |-> ObjectAt(obj_index).object_id]

\* position of obj_index in the eligible list, from 0, or 0
DisplayIndexOf(eligible, obj_index) ==
    IF \E k \in DOMAIN eligible : eligible[k] = obj_index
    THEN (CHOOSE k \in DOMAIN eligible : eligible[k] = obj_index) - 1
    ELSE 0

Max0(index) == IF index < 0 THEN 0 ELSE index

\* get_card with an explicit object_id (lines 1567-1578)
ForcedCard(forced_object_id, index, eligible, filter_key) ==
    IF IsNil(object_id_to_index(forced_object_id))
    THEN Done(index, Len(eligible), filter_key, "object_not_found")
    ELSE Card(DisplayIndexOf(eligible, Val(object_id_to_index(forced_object_id))),
              IF Len(eligible) > 0 THEN Len(eligible) ELSE Len(PollObjects),
              filter_key, Val(object_id_to_index(forced_object_id)))

\* get_card without one (lines 1579-1605)
PendingCard(start, rid, eligible, filter_key, pos) ==
    IF pos < 0
    THEN Done(start, Len(eligible), filter_key, "all_answered_for_filter")
    ELSE Card(pos, Len(eligible), filter_key, eligible[pos + 1])

NextCard(rows, index, rid, eligible, filter_key) ==
    IF Len(eligible) <= 0
    THEN Done(0, 0, filter_key, "no_objects_for_filter")
    ELSE PendingCard(Max0(index), rid, eligible, filter_key,
                     FirstPending(eligible, Max0(index), rid, _voted_object_ids(rows, rid)))

CardFor(rows, index, rid, filter_key, object_id) ==
    IF object_id # ""
    THEN ForcedCard(object_id, index, _eligible_indices(filter_key), filter_key)
    ELSE NextCard(rows, index, rid, _eligible_indices(filter_key), filter_key)

\* get_card on the table rows
get_card(rows, index, respondent_id, rubric_filter, object_id) ==
    CardFor(rows, index,
            IF LowerId(respondent_id) \in RESPONDENT_IDS THEN LowerId(respondent_id) ELSE "",
            _normalize_filter_key(rubric_filter), object_id)

\* save_vote up to the database: the index of the object voted on, Nil when
\* the call raises ValueError or IndexError (lines 1791-1804)
VoteTarget(index, vote, respondent_id, object_id) ==
    IF vote \notin VOTES \/ LowerId(respondent_id) \notin RESPONDENT_IDS THEN Nil
    ELSE IF object_id # "" /\ ~IsNil(object_id_to_index(object_id))
    THEN object_id_to_index(object_id)
    ELSE IF index < 0 \/ index >= Len(PollObjects) THEN Nil
    ELSE Some(index)

\* SELECT id ... WHERE respondent_id = ? AND object_id = ? ORDER BY id DESC LIMIT 1
RowsOf(rows, rid, oid) ==
    {i \in DOMAIN rows : rows[i].respondent_id = rid /\ rows[i].object_id = oid}
SelectExisting(rows, rid, oid) ==
    IF RowsOf(rows, rid, oid) = {} THEN Nil
    ELSE Some(rows[CHOOSE i \in RowsOf(rows, rid, oid) :
                      \A k \in RowsOf(rows, rid, oid) : rows[k].id <= rows[i].id].id)

\* INSERT INTO respondent_vote
InsertVote(rows, id, rid, oid, vote) ==
    Append(rows, [id |-> id, respondent_id |-> rid, object_id |-> oid, vote |-> vote])
\* UPDATE respondent_vote SET vote = ? WHERE id = ?
UpdateVote(rows, id, vote) ==
    [i \in DOMAIN rows |-> IF rows[i].id = id THEN [rows[i] EXCEPT !.vote = vote] ELSE rows[i]]

MaxRequests == 3

\* what the requests carry
RespondentInputs == {"OLYA", "sasha", "guest"}
VoteInputs == {"left", "right"}
\* <<index, object_id>>: by index, by object id with an index out of
\* range, by an unknown object id with an index
TargetInputs == { <<0, "">>, <<7, "obj_3">>, <<2, "nope">> }
\* who asks for a card, and from which position
CardRespondents == {"OLYA", "guest"}
IndexInputs == {-1, 1}
FilterInputs == {"rest2rent", "missing", "bogus"}
ObjectInputs == {"", "obj_2"}

\* the requests served so far: the handler threads and the cards
Requests == Len(handlers) + (IF IsNil(card) THEN 0 ELSE Val(card).n)

InitPoll ==
    /\ pc = "poll"
    /\ respondent_vote = <<>>
    /\ last_id = 0
    /\ handlers = <<>>
    /\ votes_file = 0
    /\ card = Nil
    /\ NormIdle /\ PairIdle /\ MatchIdle /\ BoardIdle

\* a handler thread of a vote that read the table and is about to write
VoteHandler(rid, obj_index, vote, existing) ==
    [op |-> "vote", at |-> "write", respondent_id |-> rid,
     object_id |-> ObjectAt(obj_index).object_id, vote |-> vote, existing |-> existing]

\* POST /api/vote: do_POST calls save_vote, which runs up to its SELECT;
\* a call that raises is answered with 400 and leaves nothing
VoteSelect ==
    /\ pc = "poll"
    /\ Requests < MaxRequests
    /\ \E r \in RespondentInputs, v \in VoteInputs, t \in TargetInputs :
          IF IsNil(VoteTarget(t[1], v, r, t[2]))
          THEN handlers' = Append(handlers, [op |-> "vote", at |-> "refused"])
          ELSE handlers' = Append(handlers,
                  VoteHandler(LowerId(r), Val(VoteTarget(t[1], v, r, t[2])), v,
                      SelectExisting(respondent_vote, LowerId(r),
                          ObjectAt(Val(VoteTarget(t[1], v, r, t[2]))).object_id)))
    /\ UNCHANGED <<pc, respondent_vote, last_id, votes_file, card,
                   normVars, pairVars, matchVars, boardVars>>

\* save_vote: INSERT when the SELECT found no row, UPDATE of the row found
\* otherwise, and the commit
VoteWrite ==
    /\ pc = "poll"
    /\ \E h \in DOMAIN handlers :
          /\ handlers[h].op = "vote" /\ handlers[h].at = "write"
          /\ IF IsNil(handlers[h].existing)
             THEN /\ respondent_vote' = InsertVote(respondent_vote, last_id + 1,
                         handlers[h].respondent_id, handlers[h].object_id, handlers[h].vote)
                  /\ last_id' = last_id + 1
             ELSE /\ respondent_vote' = UpdateVote(respondent_vote,
                         Val(handlers[h].existing), handlers[h].vote)
                  /\ last_id' = last_id
          /\ handlers' = [handlers EXCEPT ![h].at = "log"]
    /\ UNCHANGED <<pc, votes_file, card, normVars, pairVars, matchVars, boardVars>>

\* save_vote: the row appended to the votes file under self.lock; the
\* thread ends
VoteLog ==
    /\ pc = "poll"
    /\ \E h \in DOMAIN handlers :
          /\ handlers[h].op = "vote" /\ handlers[h].at = "log"
          /\ votes_file' = votes_file + 1
          /\ handlers' = [handlers EXCEPT ![h] = [op |-> "vote", at |-> "done"]]
    /\ UNCHANGED <<pc, respondent_vote, last_id, card,
                   normVars, pairVars, matchVars, boardVars>>

\* POST /api/admin/clear-votes: clear_all_votes deletes every row; any
\* respondent but 'test' is refused
ClearDelete ==
    /\ pc = "poll"
    /\ Requests < MaxRequests
    /\ \E r \in {"test", "sasha"} :
          IF LowerId(r) # "test"
          THEN /\ handlers' = Append(handlers, [op |-> "clear", at |-> "refused"])
               /\ respondent_vote' = respondent_vote
          ELSE /\ handlers' = Append(handlers, [op |-> "clear", at |-> "reset"])
               /\ respondent_vote' = <<>>
    /\ UNCHANGED <<pc, last_id, votes_file, card, normVars, pairVars, matchVars, boardVars>>

\* clear_all_votes: _reset_votes_file writes the file anew
ClearReset ==
    /\ pc = "poll"
    /\ \E h \in DOMAIN handlers :
          /\ handlers[h].op = "clear" /\ handlers[h].at = "reset"
          /\ votes_file' = 0
          /\ handlers' = [handlers EXCEPT ![h].at = "done"]
    /\ UNCHANGED <<pc, respondent_vote, last_id, card,
                   normVars, pairVars, matchVars, boardVars>>

\* GET /api/card: the request and what get_card answered
GetCard ==
    /\ pc = "poll"
    /\ Requests < MaxRequests
    /\ \E i \in IndexInputs, r \in CardRespondents, f \in FilterInputs, o \in ObjectInputs :
          card' = Some([n |-> IF IsNil(card) THEN 1 ELSE Val(card).n + 1,
                        index |-> i, respondent_id |-> r, filter |-> f, object_id |-> o,
                        answer |-> get_card(respondent_vote, i, r, f, o)])
    /\ UNCHANGED <<pc, respondent_vote, last_id, handlers, votes_file,
                   normVars, pairVars, matchVars, boardVars>>

NextPoll == VoteSelect \/ VoteWrite \/ VoteLog \/ ClearDelete \/ ClearReset \/ GetCard

SpecPoll == InitPoll /\ [][NextPoll]_vars

\* the handler thread h wrote its vote in this step
Wrote(h) ==
    /\ h \in DOMAIN handlers
    /\ handlers[h].op = "vote" /\ handlers[h].at = "write"
    /\ handlers'[h].at = "log"

\* no two rows of the table have one respondent and one object
OneRowEach(rows) ==
    \A i, j \in DOMAIN rows :
        (rows[i].respondent_id = rows[j].respondent_id /\ rows[i].object_id = rows[j].object_id)
            => i = j

\* C28: under any interleaving of the save_vote calls the threaded server
\* runs, respondent_vote holds at most one row per (respondent_id,
\* object_id): a repeated vote updates the existing row and adds none, and
\* when a call has written, the row holds the vote of that call.
C28_OneRowPerRespondentObject ==
    [][ /\ OneRowEach(respondent_vote')
        /\ \A h \in DOMAIN handlers :
              (Wrote(h) /\ RowsOf(respondent_vote, handlers[h].respondent_id,
                                  handlers[h].object_id) # {})
                  => /\ Len(respondent_vote') = Len(respondent_vote)
                     /\ \A i \in RowsOf(respondent_vote', handlers[h].respondent_id,
                                        handlers[h].object_id) :
                           respondent_vote'[i].vote = handlers[h].vote ]_vars

\* the respondent has a row for the object
Stored(rows, r, o) == RowsOf(rows, r, o) # {}
StoredIds(rows, r) == {PollObjects[k].object_id : k \in {j \in DOMAIN PollObjects : Stored(rows, r, PollObjects[j].object_id)}}

\* clear_all_votes deleted the rows in this step
Cleared ==
    /\ Len(handlers') = Len(handlers) + 1
    /\ handlers'[Len(handlers')] = [op |-> "clear", at |-> "reset"]

\* get_card answered in this step, for a known respondent, without an
\* explicit object id, under a filter some object passes
AskedNext ==
    /\ card' # card
    /\ Val(card').object_id = ""
    /\ LowerId(Val(card').respondent_id) \in RESPONDENT_IDS
    /\ _eligible_indices(Val(card').filter) # <<>>

\* the positions, from 0, of the eligible list at or after start whose
\* object the respondent has no stored vote on
PendingFrom(rows, r, eligible, start) ==
    {pos \in start..(Len(eligible) - 1) :
        ~Stored(rows, r, ObjectAt(eligible[pos + 1]).object_id)}
Least(S) == CHOOSE x \in S : \A y \in S : x <= y

AnswersFirstPending(c, eligible, pending) ==
    IF pending = {}
    THEN c.answer.done /\ c.answer.reason = "all_answered_for_filter"
    ELSE /\ ~c.answer.done
         /\ c.answer.object_id = ObjectAt(eligible[Least(pending) + 1]).object_id
         /\ c.answer.index = Least(pending)

====
